---- MODULE Spec2Model ----
(***************************************************************************)
(* Model of BYOK-gijiroku-app: the browser client (src/) talking to the    *)
(* Python backend of the same repository.  The backend sources are not     *)
(* part of src/; its task registry, pipeline worker and capture sessions   *)
(* are modelled from spec.md.  The client functions (backend-api,          *)
(* audio-capture-api, RecordingPanel) are modelled from src/.              *)
(*                                                                         *)
(* The specifications of the module:                                       *)
(*   Spec / LiveSpec : task registry + pipeline worker + waitForProcessing *)
(*   CaptureSpec     : capture sessions + RecordingPanel start/stop        *)
(*   MergeSpec       : the merge stage labelling one segment               *)
(*   ColourSpec      : performSpeakerDiarization, the speakers' colours    *)
(*   MixSpec         : the mixing loop of one capture session              *)
(*   ReceiverSpec    : the network receiver of one capture session         *)
(*   SenderSpec      : NetworkAudioSender and the backend's send sessions  *)
(*   ChainSpec       : the processing chain after a stop, the minutes      *)
(*                     store, the audio store and the history delete       *)
(*   StoreSpec       : the minutes of the store, opened, edited, deleted   *)
(*   SettingsSpec    : the settings screen and processWithLLM's dispatch   *)
(*   SpeechSpec      : useRealtimeTranscription, the live transcript       *)
(*   RecorderSpec    : useAudioRecorder, the recording of the browser      *)
(*   VisitSpec       : CaptureSpec with the panel left and re-entered      *)
(***************************************************************************)
EXTENDS Integers, Sequences, FiniteSets, TLC

VARIABLES
    \* ---- backend: TaskRegistry / TaskPipeline (spec.md 4.4, 4.5)
    tasks,        \* task id -> ProcessingTask record, or Absent
    outcome,      \* task id -> how its worker ended ("pending", "completed" or the engine message)
    written,      \* task id -> every status its worker has written (history)
    \* ---- client: waitForProcessing calls (backend-api)
    wait,         \* wait id -> state of one waitForProcessing(taskId, onProgress) call
    \* ---- backend: CaptureSession manager (spec.md 4.2)
    sessions,     \* session id -> CaptureSession record, or NoSession
    listeners,    \* port -> id of the session whose listening socket holds it ("" when free)
    handed,       \* session id -> times stop handed out its audio since its last start (history)
    released,     \* ports that a stopped session has given back (history)
    \* ---- client: audio-capture-api and RecordingPanel
    sentEmpty,            \* the panel has sent a captureStart naming no device and no port (history)
    useBackendCapture,    \* RecordingPanel useState
    selectedDevices,
    networkPort,
    backendSessionId,
    backendRecording,
    isRecording,          \* useAudioRecorder().isRecording (browser recording)
    isProcessing,         \* store flag
    startCalls,           \* handleStartRecording runs awaiting startCapture
    stopCalls,            \* handleStopRecording runs awaiting stopCapture
    chains,               \* handleStopRecording runs inside the processing chain
    issued,               \* session ids the panel has generated
    \* ---- backend: merge stage of the pipeline (spec.md 4.4)
    segment,      \* the transcribed segment to label
    ranges,       \* the diarization ranges, in the order the engine returned them
    assigned,     \* the speaker the merge stage gave the segment ("" before the merge)
    \* ---- client: performSpeakerDiarization (ai-service)
    llmAnswer,    \* what processWithLLM and JSON.parse came back with
    diarized,     \* the speakers of the Transcript returned, once the call is done
    \* ---- backend: the mixing loop of one Recording session (spec.md 4.2)
    pending,      \* source -> the newest frame it buffered since the last tick, if any
    alive,        \* source -> whether it still delivers frames
    mixBuffer,    \* the accumulated buffer, one mixed frame per tick
    \* ---- backend: the network receiver of one Recording session (spec.md 3, 4.2, 8)
    receiver,     \* state of the session that listens ("Recording" or "Crashed")
    expected,     \* the sequence number that follows the newest frame taken
    peerAudio,    \* the audio accumulated for the sender, one sample per frame time
    arrived,      \* sequence numbers the network has delivered (history)
    \* ---- backend: StreamSender (spec.md 4.3)
    sendSessions, \* send session id -> "none", "sending" or "stopped"
    sendLoops,    \* ids of the send sessions whose send loop runs
    forwarded,    \* send session id -> frames its loop has forwarded
    \* ---- client: NetworkAudioSender
    selectedDevice,       \* NetworkAudioSender useState
    targetHost,
    targetPort,
    isSending,
    senderSessionId,      \* sessionId of NetworkAudioSender
    sendStarts,           \* handleStartSending runs awaiting startAudioSend
    sendStops,            \* handleStopSending runs awaiting stopAudioSend
    sendIssued,           \* session ids the sender panel has generated
    \* ---- client: the processing chain of RecordingPanel, useStore, audio-storage
    processing,   \* chain id -> how far the chain of one stopped recording has come
    minutes,      \* useStore().minutes, newest first
    audioFiles,   \* ids of the records in the IndexedDB store 'audio-files'
    deleting,     \* entries whose handleDelete awaits deleteAudio
    currentMinutes,   \* useStore().currentMinutes
    activeTab,        \* useStore().activeTab
    \* ---- client: the settings of useStore, SettingsPanel, processWithLLM
    settings,     \* useStore().settings
    llmCall,      \* where processWithLLM handed its latest call, if it was called
    \* ---- client: useRealtimeTranscription (useAudioRecorder.ts)
    speech,       \* isListening, recognitionRef, restartTimeoutRef and the recognitions made
    \* ---- client: useAudioRecorder (useAudioRecorder.ts)
    recorder      \* the state and the refs of the hook, and the startRecording calls made

taskVars == <<tasks, outcome, written, wait>>

backendCaptureVars == <<sessions, listeners, handed, released>>

\* The panel but for the isProcessing flag of the store
panelOther ==
    <<useBackendCapture, selectedDevices, networkPort, backendSessionId, backendRecording,
      isRecording, startCalls, stopCalls, chains, issued>>

panelVars == <<panelOther, isProcessing>>

captureVars == <<backendCaptureVars, sentEmpty, panelVars>>

mergeVars == <<segment, ranges, assigned>>

colourVars == <<llmAnswer, diarized>>

mixVars == <<pending, alive, mixBuffer>>

receiverVars == <<receiver, expected, peerAudio, arrived>>

backendSendVars == <<sendSessions, sendLoops, forwarded>>

senderPanelVars ==
    <<selectedDevice, targetHost, targetPort, isSending, senderSessionId, sendStarts, sendStops,
      sendIssued>>

senderVars == <<backendSendVars, senderPanelVars>>

chainVars == <<processing, minutes, audioFiles, deleting, currentMinutes, activeTab>>

settingsVars == <<settings, llmCall>>

speechVars == <<speech>>

recorderVars == <<recorder>>

\* The variables outside the task registry and the capture sessions
elsewhereVars == <<mergeVars, colourVars, mixVars, receiverVars, senderVars, chainVars, settingsVars, speechVars, recorderVars>>

\* Everything but mergeVars
outsideMerge == <<taskVars, captureVars, colourVars, mixVars, receiverVars, senderVars, chainVars, settingsVars, speechVars, recorderVars>>

\* Everything but colourVars
outsideColour == <<taskVars, captureVars, mergeVars, mixVars, receiverVars, senderVars, chainVars, settingsVars, speechVars, recorderVars>>

\* Everything but mixVars
outsideMix == <<taskVars, captureVars, mergeVars, colourVars, receiverVars, senderVars, chainVars, settingsVars, speechVars, recorderVars>>

\* Everything but receiverVars
outsideReceiver == <<taskVars, captureVars, mergeVars, colourVars, mixVars, senderVars, chainVars, settingsVars, speechVars, recorderVars>>

\* Everything but senderVars
outsideSender == <<taskVars, captureVars, mergeVars, colourVars, mixVars, receiverVars, chainVars, settingsVars, speechVars, recorderVars>>

\* Everything but chainVars
outsideChain == <<taskVars, captureVars, mergeVars, colourVars, mixVars, receiverVars, senderVars, settingsVars, speechVars, recorderVars>>

\* Everything but settingsVars
outsideSettings == <<taskVars, captureVars, mergeVars, colourVars, mixVars, receiverVars, senderVars, chainVars, speechVars, recorderVars>>

\* Everything but speechVars
outsideSpeech == <<taskVars, captureVars, mergeVars, colourVars, mixVars, receiverVars, senderVars, chainVars, settingsVars, recorderVars>>

\* Everything but recorderVars
outsideRecorder == <<taskVars, captureVars, mergeVars, colourVars, mixVars, receiverVars, senderVars, chainVars, settingsVars, speechVars>>

vars == <<taskVars, captureVars, elsewhereVars>>

-----------------------------------------------------------------------------
(* Identities and values *)

TaskIds == {"A", "B"}            \* the ids processAudio can hand out
WaitIds == {"w1", "w2"}          \* concurrent waitForProcessing calls
Audios == {"silence", "speech"}  \* recordings a client may submit

Undefined == "undefined"         \* a JSON string field that is not there
NaN == 0 - 1                     \* a JSON number field that is not there (compares false)
None == <<>>                     \* an optional value that is not there
Some(x) == <<x>>                 \* an optional value that is there

\* Engine failures of a stage (spec.md 4.4: timeout, missing model, invalid audio)
EngineMessages == {"engine timeout", "model missing"}

\* Retention window of a terminal task, in poll intervals (spec.md 4.5 "N minutes")
Retention == 2

-----------------------------------------------------------------------------
(* Backend: TaskPipeline stages *)

NonTerminal == {"Queued", "Transcribing", "Diarizing", "Merging"}
Terminal == {"Completed", "Error"}

\* The stage that follows a stage that succeeded
NextStage(stage) ==
    CASE stage = "Queued" -> "Transcribing"
      [] stage = "Transcribing" -> "Diarizing"
      [] stage = "Diarizing" -> "Merging"
      [] stage = "Merging" -> "Completed"

\* A worker that writes full progress when the merge begins
StageProgress_FullAtMerge(stage) ==
    CASE stage = "Queued" -> 0
      [] stage = "Transcribing" -> 0
      [] stage = "Diarizing" -> 30
      [] stage = "Merging" -> 100
      [] stage = "Completed" -> 100

\* Progress and stage message written when a stage is entered
StageProgress(stage) ==
    CASE stage = "Queued" -> 0
      [] stage = "Transcribing" -> 0
      [] stage = "Diarizing" -> 30
      [] stage = "Merging" -> 70
      [] stage = "Completed" -> 100

StageMessage(stage) ==
    CASE stage = "Queued" -> "queued"
      [] stage = "Transcribing" -> "transcribing"
      [] stage = "Diarizing" -> "diarizing"
      [] stage = "Merging" -> "merging"
      [] stage = "Completed" -> "completed"

\* The merged ProcessingResult of a recording (silence: empty transcript)
PipelineResult(audio) ==
    IF audio = "silence"
    THEN [text |-> "", segments |-> <<>>, speakers |-> <<>>]
    ELSE [text |-> "hello", segments |-> <<[start |-> 0, end |-> 1, speaker_id |-> "SPEAKER_00"]>>,
          speakers |-> <<"SPEAKER_00">>]

\* No such task in the registry
Absent ==
    [stage |-> "Absent", progress |-> 0, message |-> "", result |-> None,
     audio |-> "", age |-> 0]

NewTask(audio) ==
    [stage |-> "Queued", progress |-> StageProgress("Queued"),
     message |-> StageMessage("Queued"), result |-> None,
     audio |-> audio, age |-> 0]

\* status field of the wire format
WireStatus(stage) ==
    CASE stage = "Completed" -> "completed"
      [] stage = "Error" -> "error"
      [] OTHER -> "processing"

\* ProcessingStatus as the client receives it: {status, progress, message, result?}
StatusOf(task) ==
    [status |-> WireStatus(task.stage), progress |-> task.progress,
     message |-> task.message, result |-> task.result, detail |-> Undefined]

\* Ids are handed out in a fixed order (each id once)
FreshTaskId(t) ==
    /\ tasks[t] = Absent
    /\ outcome[t] = "pending"
    /\ t = "B" => tasks["A"] # Absent \/ outcome["A"] # "pending"

\* submit(audioBytes, options) -> taskId
Submit(t, audio) ==
    /\ FreshTaskId(t)
    /\ tasks' = [tasks EXCEPT ![t] = NewTask(audio)]
    /\ written' = [written EXCEPT ![t] = @ \cup {StatusOf(tasks'[t])}]
    /\ UNCHANGED <<outcome, wait, captureVars, elsewhereVars>>

\* The task record after its current stage succeeded
Advanced(task) ==
    LET next == NextStage(task.stage) IN
    [task EXCEPT !.stage = next,
                 !.progress = StageProgress(next),
                 !.message = StageMessage(next),
                 !.result = IF next = "Completed" THEN Some(PipelineResult(task.audio)) ELSE None]

\* The worker of task t finishes its current stage and enters the next
Advance(t) ==
    /\ tasks[t] # Absent
    /\ tasks[t].stage \in NonTerminal
    /\ tasks' = [tasks EXCEPT ![t] = Advanced(tasks[t])]
    /\ outcome' = [outcome EXCEPT ![t] =
                      IF tasks'[t].stage = "Completed" THEN "completed" ELSE @]
    /\ written' = [written EXCEPT ![t] = @ \cup {StatusOf(tasks'[t])}]
    /\ UNCHANGED <<wait, captureVars, elsewhereVars>>

\* The task record after its current stage failed with the engine message m
Failed(task, m) ==
    [task EXCEPT !.stage = "Error", !.message = m, !.result = None]

\* Stages that call an external engine, which may fail
EngineStages == {"Transcribing", "Diarizing"}

\* The engine call of the current stage of task t fails with message m
Fail(t, m) ==
    /\ tasks[t] # Absent
    /\ tasks[t].stage \in EngineStages
    /\ tasks' = [tasks EXCEPT ![t] = Failed(tasks[t], m)]
    /\ outcome' = [outcome EXCEPT ![t] = m]
    /\ written' = [written EXCEPT ![t] = @ \cup {StatusOf(tasks'[t])}]
    /\ UNCHANGED <<wait, captureVars, elsewhereVars>>

\* A sweep that removes whatever it finds
Evictable_Always(task) == TRUE

\* Whether the evict sweep may remove a task
Evictable(task) ==
    /\ task.stage \in Terminal
    /\ task.age >= Retention

\* evict(): the sweep removes one expired task
Evict(t) ==
    /\ tasks[t] # Absent
    /\ Evictable(tasks[t])
    /\ tasks' = [tasks EXCEPT ![t] = Absent]
    /\ UNCHANGED <<outcome, written, wait, captureVars, elsewhereVars>>

-----------------------------------------------------------------------------
(* Backend: GET processStatus{taskId} *)

\* The HTTP response of GET /api/process/{taskId}
HttpGetProcess(taskId) ==
    IF tasks[taskId] = Absent
    THEN [ok |-> FALSE,
          json |-> [status |-> Undefined, progress |-> NaN, message |-> Undefined,
                    result |-> None, detail |-> "Task not found"]]
    ELSE [ok |-> TRUE, json |-> StatusOf(tasks[taskId])]

-----------------------------------------------------------------------------
(* Client: backend-api getProcessingStatus / waitForProcessing *)

Throw(message) == [kind |-> "throw", error |-> message, value |-> None]
Return(value) == [kind |-> "return", error |-> "", value |-> Some(value)]

\* JavaScript a || b on strings
OrElse(a, b) == IF a = Undefined \/ a = "" THEN b ELSE a

\* Mutant: the response.ok check is missing, the body is returned as a status
getProcessingStatus_NoOkCheck(taskId) ==
    Return(HttpGetProcess(taskId).json)

\* getProcessingStatus(taskId): fetch, throw unless response.ok, else the JSON body
getProcessingStatus(taskId) ==
    LET response == HttpGetProcess(taskId) IN
    IF ~response.ok
    THEN Throw(OrElse(response.json.detail, "status fetch failed"))
    ELSE Return(response.json)

\* Mutant: the 'error' branch is missing, an error status is polled again
PollDecision_NoErrorBranch(status) ==
    IF status.status = "completed" /\ status.result # None
    THEN [do |-> "resolve", result |-> status.result, error |-> ""]
    ELSE [do |-> "setTimeout", result |-> None, error |-> ""]

\* Mutant: the 'error' branch rejects with a fixed text instead of status.message
PollDecision_GenericError(status) ==
    IF status.status = "completed" /\ status.result # None
    THEN [do |-> "resolve", result |-> status.result, error |-> ""]
    ELSE IF status.status = "error"
         THEN [do |-> "reject", result |-> None, error |-> "processing failed"]
         ELSE [do |-> "setTimeout", result |-> None, error |-> ""]

\* The branch waitForProcessing's poll takes on a status
PollDecision(status) ==
    IF status.status = "completed" /\ status.result # None
    THEN [do |-> "resolve", result |-> status.result, error |-> ""]
    ELSE IF status.status = "error"
         THEN [do |-> "reject", result |-> None, error |-> status.message]
         ELSE [do |-> "setTimeout", result |-> None, error |-> ""]

\* Mutant: the comparisons are turned round
ProgressStep_Reversed(status) ==
    IF status.progress # NaN /\ status.progress >= 70 THEN "transcribe"
    ELSE IF status.progress # NaN /\ status.progress >= 30 THEN "diarize"
    ELSE "merge"

\* RecordingPanel's onProgress callback: the processing step it displays
ProgressStep(status) ==
    IF status.progress # NaN /\ status.progress <= 30 THEN "transcribe"
    ELSE IF status.progress # NaN /\ status.progress <= 70 THEN "diarize"
    ELSE "merge"

IdleWait ==
    [pc |-> "idle", taskId |-> "", last |-> None, result |-> None, error |-> "",
     step |-> "", found |-> "unpolled", early |-> FALSE]

\* waitForProcessing(taskId, onProgress): the promise is created and poll() is called
StartWait(w, t) ==
    /\ wait[w].pc = "idle"
    /\ w = "w2" => wait["w1"].pc # "idle"
    /\ wait' = [wait EXCEPT ![w] =
                  [IdleWait EXCEPT !.pc = "poll", !.taskId = t, !.step = "transcribe",
                                   !.early = /\ tasks[t] # Absent
                                             /\ tasks[t].age < Retention]]
    /\ UNCHANGED <<tasks, outcome, written, captureVars, elsewhereVars>>

\* Mutant: the task id is kept in one variable shared by all waits (the last
\* wait started overwrites it)
PolledTaskId_Shared(w) ==
    IF wait["w2"].pc # "idle" THEN wait["w2"].taskId ELSE wait[w].taskId

\* The taskId that poll() of wait w asks for: the argument its closure captured
PolledTaskId(w) == wait[w].taskId

\* The state of a wait after one run of poll()
Polled(w) ==
    LET r == getProcessingStatus(PolledTaskId(w))
        found == IF tasks[wait[w].taskId] = Absent THEN "missing" ELSE "found"
    IN
    IF r.kind = "throw"
    THEN [wait[w] EXCEPT !.pc = "rejected", !.error = r.error, !.last = None, !.found = found]
    ELSE LET status == r.value[1]
             d == PollDecision(status)
         IN [wait[w] EXCEPT
               !.pc = CASE d.do = "resolve" -> "resolved"
                        [] d.do = "reject" -> "rejected"
                        [] OTHER -> "timer",
               !.result = d.result,
               !.error = d.error,
               !.last = Some(status),
               !.step = ProgressStep(status),
               !.found = found]

\* One run of poll(): the status request, onProgress, and the three-way branch
Poll(w) ==
    /\ wait[w].pc = "poll"
    /\ wait' = [wait EXCEPT ![w] = Polled(w)]
    /\ UNCHANGED <<tasks, outcome, written, captureVars, elsewhereVars>>

\* One poll interval passes: pending setTimeout(poll, pollInterval) timers fire and
\* terminal tasks age.  A poll that is due runs before the next interval ends.
Tick ==
    /\ \A w \in WaitIds : wait[w].pc # "poll"
    /\ wait' = [w \in WaitIds |->
                  IF wait[w].pc = "timer" THEN [wait[w] EXCEPT !.pc = "poll"] ELSE wait[w]]
    /\ tasks' = [t \in TaskIds |->
                  IF tasks[t].stage \in Terminal /\ tasks[t].age < Retention
                  THEN [tasks[t] EXCEPT !.age = @ + 1] ELSE tasks[t]]
    /\ UNCHANGED <<outcome, written, captureVars, elsewhereVars>>

-----------------------------------------------------------------------------
(* Backend: CaptureSession manager (spec.md 4.2, 6, 7) *)

PanelIds == <<"p1", "p2">>        \* the uuids RecordingPanel generates, in order
OtherIds == {"x1"}                \* a session id used by another caller of the API
SessionIds == {PanelIds[i] : i \in 1..Len(PanelIds)} \cup OtherIds

DeviceSpace == {0, 1}             \* device indices a caller may name
DeviceLists == SUBSET DeviceSpace  \* the deviceIndices of a request
ValidDevices == {0}               \* indices of the current enumeration
Ports == {9999}                   \* listen ports a caller may name
NoPort == 0                       \* no networkListenPort (null, undefined and 0 are falsy)
NoId == ""                        \* backendSessionId null
PortChoices == Ports \cup {NoPort}  \* the networkListenPort of a request

\* How opening the device streams of a request may end: with no device nothing is opened
OpenOutcomes(devices) == IF devices = {} THEN {TRUE} ELSE BOOLEAN

\* Frames the mixing loop may append to one session's buffer
MaxFrames == 1

\* No session under an id: no capture thread, no device stream, no port
NoSession == [state |-> "None", devices |-> {}, port |-> NoPort, buffer |-> 0, threads |-> 0]

Recording(sid) == sessions[sid].state = "Recording"

\* start that binds a listen port whoever holds it
StartError_NoPortCheck(sid, devices, port, openOk) ==
    IF Recording(sid) THEN "SessionConflictError"
    ELSE IF devices = {} /\ port = NoPort THEN "ConfigurationError"
    ELSE IF ~(devices \subseteq ValidDevices) THEN "InvalidDeviceError"
    ELSE IF devices # {} /\ ~openOk THEN "DeviceOpenError"
    ELSE ""

\* Why start(sessionId, deviceIndices, networkListenPort) is rejected ("" when it is not)
StartError(sid, devices, port, openOk) ==
    IF Recording(sid) THEN "SessionConflictError"
    ELSE IF devices = {} /\ port = NoPort THEN "ConfigurationError"
    ELSE IF ~(devices \subseteq ValidDevices) THEN "InvalidDeviceError"
    ELSE IF port # NoPort /\ listeners[port] # NoId THEN "SessionConflictError"
    ELSE IF devices # {} /\ ~openOk THEN "DeviceOpenError"
    ELSE ""

\* POST captureStart: the response and the backend state after it
CaptureStart(sid, devices, port, openOk) ==
    LET err == StartError(sid, devices, port, openOk) IN
    IF err # ""
    THEN [ok |-> FALSE, detail |-> err, audio |-> None,
          sessions |-> sessions, listeners |-> listeners]
    ELSE [ok |-> TRUE, detail |-> Undefined, audio |-> None,
          sessions |-> [sessions EXCEPT ![sid] =
                          [state |-> "Recording", devices |-> devices, port |-> port,
                           buffer |-> 0, threads |-> sessions[sid].threads + 1]],
          listeners |-> IF port = NoPort THEN listeners
                        ELSE [listeners EXCEPT ![port] = sid]]

\* The finished audio of a session's buffer, and its base64 text
Wav(sid, frames) == [format |-> "wav", recorded |-> sid, frames |-> frames]
Base64(bytes) == [base64 |-> bytes]

\* POST captureStop: the response and the backend state after it
CaptureStop(sid) ==
    IF ~Recording(sid)
    THEN [ok |-> FALSE, detail |-> "SessionNotFound", audio |-> None,
          sessions |-> sessions, listeners |-> listeners]
    ELSE [ok |-> TRUE, detail |-> Undefined,
          audio |-> Some(Base64(Wav(sid, sessions[sid].buffer))),
          sessions |-> [sessions EXCEPT ![sid] = NoSession],
          listeners |-> [p \in Ports |-> IF listeners[p] = sid THEN NoId ELSE listeners[p]]]

\* GET captureStatus: a snapshot, the backend state stays as it is
CaptureStatus(sid) ==
    IF ~Recording(sid)
    THEN [ok |-> FALSE, detail |-> "SessionNotFound", audio |-> None,
          sessions |-> sessions, listeners |-> listeners]
    ELSE [ok |-> TRUE, detail |-> Undefined, audio |-> None,
          sessions |-> sessions, listeners |-> listeners]

\* History kept with a request: audio hand-outs per session, ports given back
HandedAfter(op, sid, response) ==
    IF op = "start" /\ response.ok THEN [handed EXCEPT ![sid] = 0]
    ELSE IF op = "stop" /\ response.ok THEN [handed EXCEPT ![sid] = @ + 1]
    ELSE handed

ReleasedAfter(op, sid, response) ==
    IF op = "stop" /\ response.ok /\ sessions[sid].port # NoPort
    THEN released \cup {sessions[sid].port}
    ELSE released

\* The backend serves one request: its state and history after the response
Served(op, sid, response) ==
    /\ sessions' = response.sessions
    /\ listeners' = response.listeners
    /\ handed' = HandedAfter(op, sid, response)
    /\ released' = ReleasedAfter(op, sid, response)

\* One tick of the mixing loop of a Recording session appends a mixed frame
MixTick(sid) ==
    /\ Recording(sid)
    /\ sessions[sid].buffer < MaxFrames
    /\ sessions' = [sessions EXCEPT ![sid].buffer = @ + 1]
    /\ UNCHANGED <<listeners, handed, released, sentEmpty, panelVars, taskVars, elsewhereVars>>

-----------------------------------------------------------------------------
(* Client: audio-capture-api startCapture / stopCapture / getCaptureStatus *)

\* atob and the Blob built from its bytes
Blob(base64) == [type |-> "audio/wav", bytes |-> base64.base64]

Outcome(kind, error, blob) == [kind |-> kind, error |-> error, blob |-> blob]

\* startCapture that never looks at response.ok
startCapture_NoOkCheck(response) == Outcome("return", "", None)

\* startCapture: throw Error(error.detail || ...) unless response.ok
startCapture(response) ==
    IF ~response.ok
    THEN Outcome("throw", OrElse(response.detail, "Failed to start capture"), None)
    ELSE Outcome("return", "", None)

\* stopCapture that drops the detail of an error response
stopCapture_GenericError(response) ==
    IF ~response.ok
    THEN Outcome("throw", "Failed to stop capture", None)
    ELSE Outcome("return", "", Some(Blob(response.audio[1])))

\* stopCapture: throw unless response.ok, else the Blob decoded from audio_base64
stopCapture(response) ==
    IF ~response.ok
    THEN Outcome("throw", OrElse(response.detail, "Failed to stop capture"), None)
    ELSE Outcome("return", "", Some(Blob(response.audio[1])))

\* getCaptureStatus: throw Error('Session not found') unless response.ok
getCaptureStatus(response) ==
    IF ~response.ok
    THEN Outcome("throw", "Session not found", None)
    ELSE Outcome("return", "", None)

\* Another caller of the API starts a capture
OtherStart(sid, devices, port, openOk) ==
    LET response == CaptureStart(sid, devices, port, openOk) IN
    /\ Served("start", sid, response)
    /\ UNCHANGED <<sentEmpty, panelVars, taskVars, elsewhereVars>>

\* Another caller of the API stops a capture
OtherStop(sid) ==
    LET response == CaptureStop(sid) IN
    /\ Served("stop", sid, response)
    /\ UNCHANGED <<sentEmpty, panelVars, taskVars, elsewhereVars>>

\* Another caller of the API asks for the status of a capture
OtherStatus(sid) ==
    LET response == CaptureStatus(sid) IN
    /\ Served("status", sid, response)
    /\ UNCHANGED <<sentEmpty, panelVars, taskVars, elsewhereVars>>

-----------------------------------------------------------------------------
(* Client: RecordingPanel *)

IsCurrentlyRecording == isRecording \/ backendRecording

\* A start control that stays enabled with nothing selected for backend capture
StartDisabled_NoSelectionClause(hasLLMReady, permissionStatus) ==
    \/ isProcessing
    \/ ~hasLLMReady
    \/ ~useBackendCapture /\ permissionStatus = "denied"

\* disabled= of the start control
StartDisabled(hasLLMReady, permissionStatus) ==
    \/ isProcessing
    \/ ~hasLLMReady
    \/ ~useBackendCapture /\ permissionStatus = "denied"
    \/ useBackendCapture /\ selectedDevices = {} /\ networkPort = NoPort

\* handleStartRecording takes the backend capture branch
UsesBackendCapture ==
    useBackendCapture /\ (selectedDevices # {} \/ networkPort # NoPort)

PermissionStates == {"granted", "denied", "prompt", "unknown"}

\* The backend capture toggle (disabled while recording)
ToggleBackendCapture ==
    /\ ~IsCurrentlyRecording
    /\ useBackendCapture' = ~useBackendCapture
    /\ UNCHANGED <<selectedDevices, networkPort, backendSessionId, backendRecording,
                   isRecording, isProcessing, startCalls, stopCalls, chains, issued,
                   backendCaptureVars, sentEmpty, taskVars, elsewhereVars>>

\* AudioDeviceSelector toggleDevice (shown in backend mode, disabled while recording)
ToggleDevice(index) ==
    /\ useBackendCapture /\ ~IsCurrentlyRecording
    /\ selectedDevices' = IF index \in selectedDevices
                          THEN selectedDevices \ {index}
                          ELSE selectedDevices \cup {index}
    /\ UNCHANGED <<useBackendCapture, networkPort, backendSessionId, backendRecording,
                   isRecording, isProcessing, startCalls, stopCalls, chains, issued,
                   backendCaptureVars, sentEmpty, taskVars, elsewhereVars>>

\* AudioDeviceSelector network port input
SetNetworkPort(port) ==
    /\ useBackendCapture /\ ~IsCurrentlyRecording
    /\ networkPort' = port
    /\ UNCHANGED <<useBackendCapture, selectedDevices, backendSessionId, backendRecording,
                   isRecording, isProcessing, startCalls, stopCalls, chains, issued,
                   backendCaptureVars, sentEmpty, taskVars, elsewhereVars>>

\* A click on the start control, backend capture branch of handleStartRecording:
\* a fresh session id, the startCapture request, and the handler awaiting it
StartClickBackend(hasLLMReady, permissionStatus, openOk) ==
    /\ ~IsCurrentlyRecording
    /\ ~StartDisabled(hasLLMReady, permissionStatus)
    /\ UsesBackendCapture
    /\ issued < Len(PanelIds)
    /\ LET sessionId == PanelIds[issued + 1]
           response == CaptureStart(sessionId, selectedDevices, networkPort, openOk)
           out == startCapture(response)
       IN /\ Served("start", sessionId, response)
          /\ startCalls' = startCalls \cup {[sessionId |-> sessionId, out |-> out]}
    /\ sentEmpty' = (sentEmpty \/ (selectedDevices = {} /\ networkPort = NoPort))
    /\ issued' = issued + 1
    /\ UNCHANGED <<useBackendCapture, selectedDevices, networkPort, backendSessionId,
                   backendRecording, isRecording, isProcessing, stopCalls, chains, taskVars, elsewhereVars>>

\* A handler that sets the recording state whether startCapture returned or threw
StartReturns_SetsAnyway(call) ==
    /\ call \in startCalls
    /\ startCalls' = startCalls \ {call}
    /\ backendSessionId' = call.sessionId
    /\ backendRecording' = TRUE
    /\ UNCHANGED <<useBackendCapture, selectedDevices, networkPort, isRecording,
                   isProcessing, stopCalls, chains, issued, backendCaptureVars, sentEmpty, taskVars, elsewhereVars>>

\* startCapture returned or threw: the rest of handleStartRecording's try/catch
StartReturns(call) ==
    /\ call \in startCalls
    /\ startCalls' = startCalls \ {call}
    /\ IF call.out.kind = "return"
       THEN /\ backendSessionId' = call.sessionId
            /\ backendRecording' = TRUE
       ELSE UNCHANGED <<backendSessionId, backendRecording>>
    /\ UNCHANGED <<useBackendCapture, selectedDevices, networkPort, isRecording,
                   isProcessing, stopCalls, chains, issued, backendCaptureVars, sentEmpty, taskVars, elsewhereVars>>

\* A click on the start control, browser branch: startRecording(selectedSource)
\* leaves the recorder recording, or fails
StartClickBrowser(hasLLMReady, permissionStatus, started) ==
    /\ ~IsCurrentlyRecording
    /\ ~StartDisabled(hasLLMReady, permissionStatus)
    /\ ~UsesBackendCapture
    /\ isRecording' = started
    /\ UNCHANGED <<useBackendCapture, selectedDevices, networkPort, backendSessionId,
                   backendRecording, isProcessing, startCalls, stopCalls, chains, issued,
                   backendCaptureVars, sentEmpty, taskVars, elsewhereVars>>

\* handleStopRecording once it holds the blob: nothing without a blob, back to the
\* settings without an API key, else the processing chain starts
AfterBlob(blob, hasKey) ==
    IF blob # None /\ hasKey
    THEN isProcessing' = TRUE /\ chains' = chains + 1
    ELSE UNCHANGED <<isProcessing, chains>>

\* A click on the stop control, backend branch of handleStopRecording:
\* the stopCapture request, and the handler awaiting it
StopClickBackend ==
    /\ IsCurrentlyRecording /\ ~isProcessing
    /\ backendRecording /\ backendSessionId # NoId
    /\ LET response == CaptureStop(backendSessionId)
           out == stopCapture(response)
       IN /\ Served("stop", backendSessionId, response)
          /\ stopCalls' = stopCalls \cup {[sessionId |-> backendSessionId, out |-> out]}
    /\ UNCHANGED <<useBackendCapture, selectedDevices, networkPort, backendSessionId,
                   backendRecording, isRecording, isProcessing, startCalls, chains, issued,
                   sentEmpty, taskVars, elsewhereVars>>

\* stopCapture returned or threw: catch, finally, and the rest of handleStopRecording
StopReturns(call, hasKey) ==
    /\ call \in stopCalls
    /\ stopCalls' = stopCalls \ {call}
    /\ backendRecording' = FALSE
    /\ backendSessionId' = NoId
    /\ AfterBlob(call.out.blob, hasKey)
    /\ UNCHANGED <<useBackendCapture, selectedDevices, networkPort, isRecording,
                   startCalls, issued, backendCaptureVars, sentEmpty, taskVars, elsewhereVars>>

\* The blob useAudioRecorder's stopRecording resolves with
RecorderBlob ==
    [type |-> "audio/webm", bytes |-> [format |-> "webm", recorded |-> "recorder", frames |-> 0]]

\* A click on the stop control, browser branch: stopRecording() hands back the blob
StopClickBrowser(hasKey) ==
    /\ IsCurrentlyRecording /\ ~isProcessing
    /\ ~(backendRecording /\ backendSessionId # NoId)
    /\ isRecording' = FALSE
    /\ AfterBlob(Some(RecorderBlob), hasKey)
    /\ UNCHANGED <<useBackendCapture, selectedDevices, networkPort, backendSessionId,
                   backendRecording, startCalls, stopCalls, issued,
                   backendCaptureVars, sentEmpty, taskVars, elsewhereVars>>

\* The processing chain of a handleStopRecording run ends (finally)
ProcessingEnds ==
    /\ chains > 0
    /\ chains' = chains - 1
    /\ isProcessing' = FALSE
    /\ UNCHANGED <<useBackendCapture, selectedDevices, networkPort, backendSessionId,
                   backendRecording, isRecording, startCalls, stopCalls, issued,
                   backendCaptureVars, sentEmpty, taskVars, elsewhereVars>>

-----------------------------------------------------------------------------
(* Backend: merge stage of the pipeline (spec.md 4.4 step 3, 8) *)

\* Instants, in seconds, at which a segment or a range may begin or end
Instants == {0, 2, 3, 5, 6}

\* Diarization ranges per recording
MaxRanges == 2

Speakers == {"speakerA", "speakerB"}
UnknownSpeaker == "unknown"
NotMerged == ""

\* Time spans [start, end] with start < end
Spans == {sp \in [start : Instants, end : Instants] : sp.start < sp.end}

SpeakerRanges == [speaker : Speakers, start : Instants, end : Instants]

Min2(a, b) == IF a <= b THEN a ELSE b
Max2(a, b) == IF a >= b THEN a ELSE b

\* Seconds the range r shares with the segment seg
Overlap(seg, r) == Max2(0, Min2(seg.end, r.end) - Max2(seg.start, r.start))

\* No range chosen yet
NoRange == [speaker |-> UnknownSpeaker, start |-> 0, end |-> 0]

\* A join in which of two ranges of equal overlap the later one wins
Better_LatestWins(seg, r, best) ==
    /\ Overlap(seg, r) > 0
    /\ Overlap(seg, r) >= Overlap(seg, best)

\* Whether range r replaces the best range found so far
Better(seg, r, best) ==
    /\ Overlap(seg, r) > 0
    /\ \/ Overlap(seg, r) > Overlap(seg, best)
       \/ Overlap(seg, r) = Overlap(seg, best) /\ r.start < best.start

\* The best of the first n ranges
RECURSIVE BestRange(_, _, _)
BestRange(seg, rs, n) ==
    IF n = 0 THEN NoRange
    ELSE LET best == BestRange(seg, rs, n - 1) IN
         IF Better(seg, rs[n], best) THEN rs[n] ELSE best

\* The speaker the merge stage gives a segment
AssignSpeaker(seg, rs) == BestRange(seg, rs, Len(rs)).speaker

\* The merge stage labels the segment
Merge ==
    /\ assigned = NotMerged
    /\ assigned' = AssignSpeaker(segment, ranges)
    /\ UNCHANGED <<segment, ranges, outsideMerge>>

\* The diarization results a recording may come with
RangeLists ==
    UNION {[1..n -> {r \in SpeakerRanges : r.start < r.end}] : n \in 0..MaxRanges}

\* No merge is under way
MergeIdle ==
    /\ segment = [start |-> 0, end |-> 0]
    /\ ranges = <<>>
    /\ assigned = NotMerged

MergeInit ==
    /\ segment \in Spans
    /\ ranges \in RangeLists
    /\ assigned = NotMerged

-----------------------------------------------------------------------------
(* Client: performSpeakerDiarization, the speakers of the transcript *)

SPEAKER_COLORS ==
    << "#8B5CF6", "#3B82F6", "#10B981", "#F59E0B", "#EF4444", "#EC4899", "#06B6D4", "#84CC16" >>

\* Speakers the LLM may list
MaxSpeakers == 9

\* The id of the speaker listed at position k
SpeakerId(k) == <<"speaker", k>>

EstimatedNames == {"", "Tanaka"}

\* parsed.speakers: each speaker once, in the order the LLM listed them
SpeakerLists ==
    UNION {{[k \in 1..n |-> [id |-> SpeakerId(k), estimatedName |-> names[k]]] :
               names \in [1..n -> EstimatedNames]} : n \in 0..MaxSpeakers}

\* The call or the parse failed
LlmFailed == [ok |-> FALSE, speakers |-> <<>>]

LlmAnswers == {LlmFailed} \cup {[ok |-> TRUE, speakers |-> l] : l \in SpeakerLists}

\* A palette index that is one ahead
SpeakerColor_OneAhead(idx) == SPEAKER_COLORS[((idx + 1) % Len(SPEAKER_COLORS)) + 1]

\* SPEAKER_COLORS[idx % SPEAKER_COLORS.length], idx counting from 0
SpeakerColor(idx) == SPEAKER_COLORS[(idx % Len(SPEAKER_COLORS)) + 1]

\* The default name, "speaker" in Japanese followed by idx + 1
DefaultName(idx) == <<"washa", idx + 1>>

\* parsed.speakers.map((s, idx) => ...)
MapSpeakers(speakers) ==
    [k \in 1..Len(speakers) |->
        [id |-> speakers[k].id,
         name |-> IF speakers[k].estimatedName = "" THEN DefaultName(k - 1)
                  ELSE <<speakers[k].estimatedName, 0>>,
         color |-> SpeakerColor(k - 1)]]

\* The single speaker of the catch branch
FallbackSpeakers ==
    << [id |-> <<"speaker", 1>>, name |-> DefaultName(0), color |-> SPEAKER_COLORS[1]] >>

NotDiarized == [done |-> FALSE, speakers |-> <<>>]

\* performSpeakerDiarization returns its Transcript
Diarize ==
    /\ ~diarized.done
    /\ diarized' = [done |-> TRUE,
                    speakers |-> IF llmAnswer.ok THEN MapSpeakers(llmAnswer.speakers)
                                 ELSE FallbackSpeakers]
    /\ UNCHANGED <<llmAnswer, outsideColour>>

ColourIdle ==
    /\ llmAnswer = LlmFailed
    /\ diarized = NotDiarized

ColourInit ==
    /\ llmAnswer \in LlmAnswers
    /\ diarized = NotDiarized

-----------------------------------------------------------------------------
(* Backend: the mixing loop of one Recording session (spec.md 4.2, 6) *)

\* Ticks of the mixing loop
MaxMixed == 2

\* The sources of the session: a local device stream and a network peer
Sources == {"device", "peer"}

\* Sample values of a frame (one sample stands for the frame) and the valid range
Samples == {1, 2}
ClipMax == 2

Clip(x) == IF x > ClipMax THEN ClipMax ELSE IF x < 0 - ClipMax THEN 0 - ClipMax ELSE x

\* A source that goes on contributing a sample when it has buffered nothing
Contribution_NeverSilent(src) == IF pending[src] = None THEN 1 ELSE pending[src][1]

\* What a source contributes to the tick: its newest frame, or silence
Contribution(src) == IF pending[src] = None THEN 0 ELSE pending[src][1]

RECURSIVE SumOver(_)
SumOver(S) ==
    IF S = {} THEN 0
    ELSE LET src == CHOOSE x \in S : TRUE IN Contribution(src) + SumOver(S \ {src})

\* The frame the tick appends
MixedFrame == Clip(SumOver(Sources))

\* A source buffers a new frame
Deliver(src, sample) ==
    /\ alive[src]
    /\ pending' = [pending EXCEPT ![src] = Some(sample)]
    /\ UNCHANGED <<alive, mixBuffer, outsideMix>>

\* A source stops delivering for good
SourceDies(src) ==
    /\ alive[src]
    /\ alive' = [alive EXCEPT ![src] = FALSE]
    /\ UNCHANGED <<pending, mixBuffer, outsideMix>>

\* One tick of the mixing loop
MixLoopTick ==
    /\ Len(mixBuffer) < MaxMixed
    /\ mixBuffer' = Append(mixBuffer, MixedFrame)
    /\ pending' = [src \in Sources |-> None]
    /\ UNCHANGED <<alive, outsideMix>>

MixIdle ==
    /\ pending = [src \in Sources |-> None]
    /\ alive = [src \in Sources |-> FALSE]
    /\ mixBuffer = <<>>

MixInit ==
    /\ pending = [src \in Sources |-> None]
    /\ alive = [src \in Sources |-> TRUE]
    /\ mixBuffer = <<>>

MixNext ==
    \/ \E src \in Sources, sample \in Samples : Deliver(src, sample)
    \/ \E src \in Sources : SourceDies(src)
    \/ MixLoopTick

-----------------------------------------------------------------------------
(* Backend: the network receiver of one Recording session (spec.md 3, 4.2, 8) *)

\* Frames the sender emits, numbered from 1
MaxSeq == 5

\* The sample the sender put in frame sequenceNo
FrameSample(sequenceNo) == 1 + (sequenceNo % 2)

\* A receiver that closes no gap
Silence_None(n) == <<>>

\* Silence of n frame times
Silence(n) == [i \in 1..n |-> 0]

\* The receiver takes the NetworkFrame sequenceNo off its socket: a frame at or
\* ahead of the expected number is appended behind silence for the frames skipped;
\* a frame behind it comes too late, its time is already filled
Receive(sequenceNo) ==
    /\ receiver = "Recording"
    /\ sequenceNo \notin arrived
    /\ arrived' = arrived \cup {sequenceNo}
    /\ IF sequenceNo >= expected
       THEN /\ peerAudio' = peerAudio \o Silence(sequenceNo - expected)
                                      \o <<FrameSample(sequenceNo)>>
            /\ expected' = sequenceNo + 1
       ELSE UNCHANGED <<peerAudio, expected>>
    /\ UNCHANGED <<receiver, outsideReceiver>>

ReceiverIdle ==
    /\ receiver = "None"
    /\ expected = 1
    /\ peerAudio = <<>>
    /\ arrived = {}

ReceiverInit ==
    /\ receiver = "Recording"
    /\ expected = 1
    /\ peerAudio = <<>>
    /\ arrived = {}

ReceiverNext == \E sequenceNo \in 1..MaxSeq : Receive(sequenceNo)

-----------------------------------------------------------------------------
(* Backend: StreamSender (spec.md 4.3) and client: NetworkAudioSender *)

SendIds == {"u1", "u2"}              \* the ids uuidv4 hands to the sender panel
SendDevices == {0, 1}                \* device indexes the panel lists
TargetHosts == {"", "192.168.0.5"}   \* the host field, empty or filled
TargetPorts == {"", "9999"}          \* the port field, empty or filled

\* Frames one send loop forwards at most
MaxForwarded == 2

\* startSend: the device that cannot be opened is a start error
SendStartResponse(opens) ==
    IF opens
    THEN [ok |-> TRUE, detail |-> Undefined]
    ELSE [ok |-> FALSE, detail |-> "Failed to open device"]

\* startSend: a session is marked sending, and its loop spawned, only once the device is open
SendStarted(id, opens) ==
    IF opens
    THEN /\ sendSessions' = [sendSessions EXCEPT ![id] = "sending"]
         /\ sendLoops' = sendLoops \cup {id}
    ELSE UNCHANGED <<sendSessions, sendLoops>>

\* The mark of a send session whose loop met a socket error
StateAfterSocketError == "stopped"

\* The send loop of session id forwards one more captured frame
SendLoopTick(id) ==
    /\ id \in sendLoops
    /\ forwarded[id] < MaxForwarded
    /\ forwarded' = [forwarded EXCEPT ![id] = @ + 1]
    /\ UNCHANGED <<sendSessions, sendLoops, senderPanelVars, outsideSender>>

\* The socket of session id fails mid-stream: the error is logged, the loop ends
SocketError(id) ==
    /\ id \in sendLoops
    /\ sendLoops' = sendLoops \ {id}
    /\ sendSessions' = [sendSessions EXCEPT ![id] = StateAfterSocketError]
    /\ UNCHANGED <<forwarded, senderPanelVars, outsideSender>>

\* stopSend: ends the loop of a session that is known, an error for any other id
SendStopResponse(id) ==
    IF sendSessions[id] = "none"
    THEN [ok |-> FALSE, detail |-> "Session not found"]
    ELSE [ok |-> TRUE, detail |-> Undefined]

\* startAudioSend: throw Error(error.detail || ...) unless response.ok
startAudioSend(response) ==
    IF ~response.ok
    THEN Outcome("throw", OrElse(response.detail, "Failed to start audio send"), None)
    ELSE Outcome("return", "", None)

\* stopAudioSend: throw Error(error.detail || ...) unless response.ok
stopAudioSend(response) ==
    IF ~response.ok
    THEN Outcome("throw", OrElse(response.detail, "Failed to stop audio send"), None)
    ELSE Outcome("return", "", None)

\* The button of the sender panel is disabled (the disabled prop of the panel is false)
SendButtonDisabled ==
    ~isSending /\ (selectedDevice = None \/ targetHost = "" \/ targetPort = "")

\* The device select, enabled while nothing is sent: a device index, or null for
\* its empty option
SelectSendDevice(choice) ==
    /\ ~isSending
    /\ selectedDevice' = choice
    /\ UNCHANGED <<targetHost, targetPort, isSending, senderSessionId, sendStarts, sendStops,
                   sendIssued, backendSendVars, outsideSender>>

\* The host and port fields, enabled while nothing is sent
SetTarget(host, port) ==
    /\ ~isSending
    /\ targetHost' = host
    /\ targetPort' = port
    /\ UNCHANGED <<selectedDevice, isSending, senderSessionId, sendStarts, sendStops,
                   sendIssued, backendSendVars, outsideSender>>

\* handleStartSending up to its await: a fresh uuid, the request reaches the backend
StartSendingClick(id, opens) ==
    /\ ~SendButtonDisabled
    /\ ~isSending
    /\ ~(selectedDevice = None \/ targetHost = "" \/ targetPort = "")
    /\ id \notin sendIssued
    /\ sendIssued' = sendIssued \cup {id}
    /\ SendStarted(id, opens)
    /\ sendStarts' = sendStarts \cup
           {[newSessionId |-> id, out |-> startAudioSend(SendStartResponse(opens))]}
    /\ UNCHANGED <<selectedDevice, targetHost, targetPort, isSending, senderSessionId, sendStops,
                   forwarded, outsideSender>>

\* A handleStartSending that sets its state whatever startAudioSend did
StartSendingReturns_SetsAnyway(call) ==
    /\ call \in sendStarts
    /\ sendStarts' = sendStarts \ {call}
    /\ senderSessionId' = call.newSessionId
    /\ isSending' = TRUE
    /\ UNCHANGED <<selectedDevice, targetHost, targetPort, sendStops, sendIssued,
                   backendSendVars, outsideSender>>

\* handleStartSending after its await: the state is set on success, an alert otherwise
StartSendingReturns(call) ==
    /\ call \in sendStarts
    /\ sendStarts' = sendStarts \ {call}
    /\ IF call.out.kind = "return"
       THEN /\ senderSessionId' = call.newSessionId
            /\ isSending' = TRUE
       ELSE UNCHANGED <<senderSessionId, isSending>>
    /\ UNCHANGED <<selectedDevice, targetHost, targetPort, sendStops, sendIssued,
                   backendSendVars, outsideSender>>

\* handleStopSending up to its await: the request reaches the backend
StopSendingClick ==
    /\ ~SendButtonDisabled
    /\ isSending
    /\ senderSessionId # NoId
    /\ sendStops' = sendStops \cup
           {[sessionId |-> senderSessionId, out |-> stopAudioSend(SendStopResponse(senderSessionId))]}
    /\ IF sendSessions[senderSessionId] = "none"
       THEN UNCHANGED <<sendSessions, sendLoops>>
       ELSE /\ sendSessions' = [sendSessions EXCEPT ![senderSessionId] = "stopped"]
            /\ sendLoops' = sendLoops \ {senderSessionId}
    /\ UNCHANGED <<selectedDevice, targetHost, targetPort, isSending, senderSessionId, sendStarts,
                   sendIssued, forwarded, outsideSender>>

\* handleStopSending after its await: finally { setIsSending(false); setSessionId(null) }
StopSendingReturns(call) ==
    /\ call \in sendStops
    /\ sendStops' = sendStops \ {call}
    /\ isSending' = FALSE
    /\ senderSessionId' = NoId
    /\ UNCHANGED <<selectedDevice, targetHost, targetPort, sendStarts, sendIssued,
                   backendSendVars, outsideSender>>

SenderIdle ==
    /\ sendSessions = [id \in SendIds |-> "none"]
    /\ sendLoops = {}
    /\ forwarded = [id \in SendIds |-> 0]
    /\ selectedDevice = None
    /\ targetHost = ""
    /\ targetPort = "9999"
    /\ isSending = FALSE
    /\ senderSessionId = NoId
    /\ sendStarts = {}
    /\ sendStops = {}
    /\ sendIssued = {}

SenderInit == SenderIdle

SenderNext ==
    \/ \E choice \in {None} \cup {Some(d) : d \in SendDevices} : SelectSendDevice(choice)
    \/ \E host \in TargetHosts, port \in TargetPorts : SetTarget(host, port)
    \/ \E id \in SendIds, opens \in BOOLEAN : StartSendingClick(id, opens)
    \/ \E call \in sendStarts : StartSendingReturns(call)
    \/ StopSendingClick
    \/ \E call \in sendStops : StopSendingReturns(call)
    \/ \E id \in SendIds : SendLoopTick(id)
    \/ \E id \in SendIds : SocketError(id)

-----------------------------------------------------------------------------
(* Client: the processing chain of handleStopRecording, the minutes store, *)
(* the audio store in IndexedDB and the delete of the history panel        *)

ChainIds == {"c1", "c2"}             \* the stopped recordings whose blob is processed
Recordings == {"speech"}             \* what a stopped recording holds

\* uuidv4: the audio id and the minutes id a chain generates
AudioIdOf(c) == <<"audio", c>>
MinutesIdOf(c) == <<"minutes", c>>

\* A handleStopRecording run that has no blob to process yet
IdleChain == [pc |-> "idle", blob |-> "", taskId |-> "", result |-> None, steps |-> <<>>]

\* What is outside the chains, the isProcessing flag and the task registry
besideChain ==
    <<backendCaptureVars, sentEmpty, panelOther, mergeVars, colourVars, mixVars, receiverVars,
      senderVars, settingsVars, speechVars, recorderVars>>

\* What is outside the chains and the isProcessing flag
outsideRun == <<taskVars, besideChain>>

\* The tabs of the page
Tabs == {"record", "history", "settings"}

\* A chain takes a step: its pc moves and the step is written to its history; a
\* chain that threw is in its catch and its finally, setIsProcessing(false)
ChainStep(c, pc, step) ==
    /\ processing' = [processing EXCEPT ![c].pc = pc, ![c].steps = Append(@, step)]
    /\ isProcessing' = IF pc = "failed" THEN FALSE ELSE isProcessing

\* setIsProcessing(true) and the checkBackendHealth request
ChainBegins(c, blob) ==
    /\ processing[c].pc = "idle"
    /\ c = "c2" => processing["c1"].pc # "idle"
    /\ ~isProcessing
    /\ processing' = [processing EXCEPT ![c].pc = "health", ![c].blob = blob]
    /\ isProcessing' = TRUE
    /\ UNCHANGED <<minutes, audioFiles, deleting, currentMinutes, activeTab, outsideRun>>

\* A chain that asks for the summary as soon as the backend is found healthy
HealthReturns_SkipsBackend(c, backendHealthy) ==
    /\ processing[c].pc = "health"
    /\ IF backendHealthy
       THEN /\ processing' = [processing EXCEPT ![c].pc = "generateMeetingSummary"]
            /\ UNCHANGED isProcessing
       ELSE ChainStep(c, "failed", "no backend")
    /\ UNCHANGED <<minutes, audioFiles, deleting, currentMinutes, activeTab, outsideRun>>

\* checkBackendHealth resolved: the process request is sent, or the chain throws
HealthReturns(c, backendHealthy) ==
    /\ processing[c].pc = "health"
    /\ IF backendHealthy
       THEN ChainStep(c, "processAudio", "process request")
       ELSE ChainStep(c, "failed", "no backend")
    /\ UNCHANGED <<minutes, audioFiles, deleting, currentMinutes, activeTab, outsideRun>>

\* processAudio: the backend takes the upload as task t and answers with its id, or
\* answers with an error and processAudio throws
ProcessAudio(c, t, accepted) ==
    /\ processing[c].pc = "processAudio"
    /\ IF accepted
       THEN /\ FreshTaskId(t)
            /\ tasks' = [tasks EXCEPT ![t] = NewTask(processing[c].blob)]
            /\ written' = [written EXCEPT ![t] = @ \cup {StatusOf(tasks'[t])}]
            /\ processing' = [processing EXCEPT ![c].pc = "waitForProcessing",
                                                ![c].taskId = t]
            /\ UNCHANGED isProcessing
       ELSE /\ t = "A"
            /\ ChainStep(c, "failed", "process request rejected")
            /\ UNCHANGED <<tasks, written>>
    /\ UNCHANGED <<outcome, wait, minutes, audioFiles, deleting, currentMinutes, activeTab,
                   besideChain>>

\* The wait that polls for the task of chain c, if it has been started
WaitsOf(c) == {w \in WaitIds : wait[w].pc # "idle" /\ wait[w].taskId = processing[c].taskId}

\* waitForProcessing(taskId, onProgress) is called with the id processAudio returned
ChainWaits(c, w) ==
    /\ processing[c].pc = "waitForProcessing"
    /\ WaitsOf(c) = {}
    /\ StartWait(w, processing[c].taskId)

\* A chain that submits its audio again when the wait was rejected
WaitSettles_Resubmits(c, w) ==
    /\ processing[c].pc = "waitForProcessing"
    /\ w \in WaitsOf(c)
    /\ wait[w].pc \in {"resolved", "rejected"}
    /\ IF wait[w].pc = "resolved"
       THEN /\ processing' = [processing EXCEPT ![c].pc = "generateMeetingSummary",
                                                ![c].result = wait[w].result,
                                                ![c].steps = Append(@, "result")]
            /\ UNCHANGED isProcessing
       ELSE ChainStep(c, "processAudio", "process request")
    /\ UNCHANGED <<minutes, audioFiles, deleting, currentMinutes, activeTab, outsideRun>>

\* The promise of waitForProcessing settles: with the result the summary is
\* requested, on a rejection the chain is in its catch
WaitSettles(c, w) ==
    /\ processing[c].pc = "waitForProcessing"
    /\ w \in WaitsOf(c)
    /\ wait[w].pc \in {"resolved", "rejected"}
    /\ IF wait[w].pc = "resolved"
       THEN /\ processing' = [processing EXCEPT ![c].pc = "generateMeetingSummary",
                                                ![c].result = wait[w].result,
                                                ![c].steps = Append(@, "result")]
            /\ UNCHANGED isProcessing
       ELSE ChainStep(c, "failed", "wait rejected")
    /\ UNCHANGED <<minutes, audioFiles, deleting, currentMinutes, activeTab, outsideRun>>

\* generateMeetingSummary returned, and saveAudio(uuidv4(), blob, ...) is called;
\* or it threw
SummaryReturns(c, returned) ==
    /\ processing[c].pc = "generateMeetingSummary"
    /\ IF returned
       THEN ChainStep(c, "saveAudio", "summary")
       ELSE ChainStep(c, "failed", "summary failed")
    /\ UNCHANGED <<minutes, audioFiles, deleting, currentMinutes, activeTab, outsideRun>>

\* A chain whose finally is missing on the path of a failed save
SaveAudio_NoFinally(c, stored) ==
    /\ processing[c].pc = "saveAudio"
    /\ IF stored
       THEN /\ audioFiles' = audioFiles \cup {AudioIdOf(c)}
            /\ ChainStep(c, "addMinutes", "audio saved")
       ELSE /\ processing' = [processing EXCEPT ![c].pc = "failed",
                                                ![c].steps = Append(@, "save failed")]
            /\ UNCHANGED <<audioFiles, isProcessing>>
    /\ UNCHANGED <<minutes, deleting, currentMinutes, activeTab, outsideRun>>

\* saveAudio: store.put(record) succeeds and the promise resolves, or it rejects
SaveAudio(c, stored) ==
    /\ processing[c].pc = "saveAudio"
    /\ IF stored
       THEN /\ audioFiles' = audioFiles \cup {AudioIdOf(c)}
            /\ ChainStep(c, "addMinutes", "audio saved")
       ELSE /\ ChainStep(c, "failed", "save failed")
            /\ UNCHANGED audioFiles
    /\ UNCHANGED <<minutes, deleting, currentMinutes, activeTab, outsideRun>>

\* A chain that files its minutes without an audio id
MinutesOf_NoAudio(c) == [id |-> MinutesIdOf(c), audioId |-> None, actionItems |-> <<FALSE>>,
                         edited |-> FALSE]

\* The MeetingMinutes the chain builds: its ids, whether each action item of the
\* summary is completed, and whether updatedAt is later than createdAt
MinutesOf(c) == [id |-> MinutesIdOf(c), audioId |-> Some(AudioIdOf(c)),
                 actionItems |-> <<FALSE>>, edited |-> FALSE]

\* useStore.addMinutes: the new entry goes to the front of the list
addMinutes(list, m) == <<m>> \o list

\* useStore.updateMinutes with { actionItems }: the entry of that id takes the
\* update and a new updatedAt
updateMinutes(list, id, items) ==
    [i \in DOMAIN list |->
        IF list[i].id = id THEN [list[i] EXCEPT !.actionItems = items, !.edited = TRUE]
        ELSE list[i]]

\* An updateMinutes that keeps currentMinutes in step with the list
AfterUpdate_InStep(current, id, items) ==
    IF current # None /\ current[1].id = id
    THEN Some([current[1] EXCEPT !.actionItems = items, !.edited = TRUE])
    ELSE current

\* useStore.updateMinutes: what it makes of currentMinutes
AfterUpdate(current, id, items) == current

\* The entries of the store whose id is not id
Without(list, id) == SelectSeq(list, LAMBDA m : m.id # id)

\* useStore.deleteMinutes: what it makes of currentMinutes
AfterDelete(current, id) == IF current # None /\ current[1].id = id THEN None ELSE current

\* The end of the try block: addMinutes(minutes), setCurrentMinutes(minutes),
\* setActiveTab('history'), and the finally, setIsProcessing(false)
AddMinutes(c) ==
    /\ processing[c].pc = "addMinutes"
    /\ minutes' = addMinutes(minutes, MinutesOf(c))
    /\ currentMinutes' = Some(MinutesOf(c))
    /\ activeTab' = "history"
    /\ processing' = [processing EXCEPT ![c].pc = "done",
                                        ![c].steps = Append(@, "minutes added")]
    /\ isProcessing' = FALSE
    /\ UNCHANGED <<audioFiles, deleting, outsideRun>>

\* Sidebar, a navigation button: setActiveTab(item.id), and setCurrentMinutes(null)
\* for the record tab
SetActiveTab(tab) ==
    /\ activeTab' = tab
    /\ currentMinutes' = IF tab = "record" THEN None ELSE currentMinutes
    /\ UNCHANGED <<processing, minutes, audioFiles, deleting, isProcessing, outsideRun>>

\* Sidebar, an entry of the recent minutes: setCurrentMinutes(m), setActiveTab('history');
\* the card of the history list does the same from the history tab
OpenMinutes(i) ==
    /\ i \in 1..Len(minutes)
    /\ currentMinutes' = Some(minutes[i])
    /\ activeTab' = "history"
    /\ UNCHANGED <<processing, minutes, audioFiles, deleting, isProcessing, outsideRun>>

\* HistoryPanel shows the detail of currentMinutes, or the list when it is null
ShowsDetail == activeTab = "history" /\ currentMinutes # None
ShowsList == activeTab = "history" /\ currentMinutes = None

\* MinutesDetail.onBack: setCurrentMinutes(null)
BackToList ==
    /\ ShowsDetail
    /\ currentMinutes' = None
    /\ UNCHANGED <<processing, minutes, audioFiles, deleting, activeTab, isProcessing,
                   outsideRun>>

\* MinutesDetail.toggleActionItem: the items of the entry shown, with item k toggled,
\* go to updateMinutes
toggleActionItem(k) ==
    /\ ShowsDetail
    /\ k \in DOMAIN currentMinutes[1].actionItems
    /\ LET shown == currentMinutes[1]
           updatedItems == [shown.actionItems EXCEPT ![k] = ~@]
       IN /\ minutes' = updateMinutes(minutes, shown.id, updatedItems)
          /\ currentMinutes' = AfterUpdate(currentMinutes, shown.id, updatedItems)
    /\ UNCHANGED <<processing, audioFiles, deleting, activeTab, isProcessing, outsideRun>>

\* HistoryPanel.handleDelete, from a card of the list, up to its await:
\* deleteAudio(m.audioId) deletes the record, or rejects and the error is logged
DeleteClick(i, deleted) ==
    /\ ShowsList
    /\ i \in 1..Len(minutes)
    /\ minutes[i] \notin deleting
    /\ deleting' = deleting \cup {minutes[i]}
    /\ IF minutes[i].audioId # None /\ deleted
       THEN audioFiles' = audioFiles \ {minutes[i].audioId[1]}
       ELSE UNCHANGED audioFiles
    /\ UNCHANGED <<processing, minutes, currentMinutes, activeTab, isProcessing, outsideRun>>

\* HistoryPanel.handleDelete after its await: deleteMinutes(m.id)
DeleteReturns(m) ==
    /\ m \in deleting
    /\ deleting' = deleting \ {m}
    /\ minutes' = Without(minutes, m.id)
    /\ currentMinutes' = AfterDelete(currentMinutes, m.id)
    /\ UNCHANGED <<processing, audioFiles, activeTab, isProcessing, outsideRun>>

ChainIdle ==
    /\ processing = [c \in ChainIds |-> IdleChain]
    /\ minutes = <<>>
    /\ audioFiles = {}
    /\ deleting = {}
    /\ currentMinutes = None
    /\ activeTab = "record"

ChainInit == ChainIdle

ChainNext ==
    \/ \E c \in ChainIds, blob \in Recordings : ChainBegins(c, blob)
    \/ \E c \in ChainIds, backendHealthy \in BOOLEAN : HealthReturns(c, backendHealthy)
    \/ \E c \in ChainIds, t \in TaskIds, accepted \in BOOLEAN : ProcessAudio(c, t, accepted)
    \/ \E c \in ChainIds, w \in WaitIds : ChainWaits(c, w)
    \/ \E c \in ChainIds, w \in WaitIds : WaitSettles(c, w)
    \/ \E c \in ChainIds, returned \in BOOLEAN : SummaryReturns(c, returned)
    \/ \E c \in ChainIds, stored \in BOOLEAN : SaveAudio(c, stored)
    \/ \E c \in ChainIds : AddMinutes(c)
    \/ \E i \in 1..Len(minutes), deleted \in BOOLEAN : DeleteClick(i, deleted)
    \/ \E m \in deleting : DeleteReturns(m)
    \/ \E tab \in Tabs : SetActiveTab(tab)
    \/ BackToList
    \/ \E t \in TaskIds : Advance(t)
    \/ \E t \in TaskIds, m \in EngineMessages : Fail(t, m)
    \/ \E t \in TaskIds : Evict(t)
    \/ \E w \in WaitIds : Poll(w)
    \/ Tick

\* The steps of the store: its entries are added by chains that meet no failure, and
\* are opened, edited and deleted from the sidebar and the history panel
StoreNext ==
    \/ \E c \in ChainIds, blob \in Recordings : ChainBegins(c, blob)
    \/ \E c \in ChainIds : HealthReturns(c, TRUE)
    \/ \E c \in ChainIds, t \in TaskIds : ProcessAudio(c, t, TRUE)
    \/ \E c \in ChainIds, w \in WaitIds : ChainWaits(c, w)
    \/ \E c \in ChainIds, w \in WaitIds : WaitSettles(c, w)
    \/ \E c \in ChainIds : SummaryReturns(c, TRUE)
    \/ \E c \in ChainIds : SaveAudio(c, TRUE)
    \/ \E c \in ChainIds : AddMinutes(c)
    \/ \E t \in TaskIds : Advance(t)
    \/ \E w \in WaitIds : Poll(w)
    \/ \E i \in 1..Len(minutes), deleted \in BOOLEAN : DeleteClick(i, deleted)
    \/ \E m \in deleting : DeleteReturns(m)
    \/ \E tab \in Tabs : SetActiveTab(tab)
    \/ \E i \in 1..Len(minutes) : OpenMinutes(i)
    \/ BackToList
    \/ \E k \in 1..1 : toggleActionItem(k)

-----------------------------------------------------------------------------
(* Specification of the capture sessions and the recording panel *)

CaptureInit ==
    /\ sessions = [s \in SessionIds |-> NoSession]
    /\ listeners = [p \in Ports |-> NoId]
    /\ handed = [s \in SessionIds |-> 0]
    /\ released = {}
    /\ sentEmpty = FALSE
    /\ useBackendCapture = FALSE
    /\ selectedDevices = {}
    /\ networkPort = NoPort
    /\ backendSessionId = NoId
    /\ backendRecording = FALSE
    /\ isRecording = FALSE
    /\ isProcessing = FALSE
    /\ startCalls = {}
    /\ stopCalls = {}
    /\ chains = 0
    /\ issued = 0

\* The sidebar shows another tab and then the record tab again, with no handler of
\* the panel under way: RecordingPanel is unmounted and mounted anew, its useState
\* and its recorder hook back at their initial values; the store keeps its own
LeaveAndReenter ==
    /\ startCalls = {} /\ stopCalls = {}
    /\ useBackendCapture' = FALSE
    /\ selectedDevices' = {}
    /\ networkPort' = NoPort
    /\ backendSessionId' = NoId
    /\ backendRecording' = FALSE
    /\ isRecording' = FALSE
    /\ UNCHANGED <<isProcessing, startCalls, stopCalls, chains, issued, backendCaptureVars,
                   sentEmpty, taskVars, elsewhereVars>>

CaptureNext ==
    \/ \E s \in OtherIds, d \in DeviceLists, p \in PortChoices :
          \E ok \in OpenOutcomes(d) : OtherStart(s, d, p, ok)
    \/ \E s \in OtherIds : OtherStop(s)
    \/ \E s \in OtherIds : OtherStatus(s)
    \/ \E s \in SessionIds : MixTick(s)
    \/ ToggleBackendCapture
    \/ \E i \in ValidDevices : ToggleDevice(i)
    \/ \E p \in PortChoices : SetNetworkPort(p)
    \/ \E llm \in BOOLEAN, perm \in PermissionStates, ok \in OpenOutcomes(selectedDevices) :
          StartClickBackend(llm, perm, ok)
    \/ \E c \in startCalls : StartReturns(c)
    \/ \E llm \in BOOLEAN, perm \in PermissionStates, started \in BOOLEAN :
          StartClickBrowser(llm, perm, started)
    \/ StopClickBackend
    \/ \E c \in stopCalls, key \in BOOLEAN : StopReturns(c, key)
    \/ \E key \in BOOLEAN : StopClickBrowser(key)
    \/ ProcessingEnds

-----------------------------------------------------------------------------
(* Client: the settings of the store, SettingsPanel and processWithLLM *)

\* AI_PROVIDERS: by id, the models of each provider and whether it is local
AI_PROVIDERS ==
    [huggingface |-> [isLocal |-> FALSE,
                      models |-> <<"kotoba-tech/kotoba-whisper-v2.2-faster">>],
     openai      |-> [isLocal |-> FALSE,
                      models |-> <<"gpt-5.1", "gpt-4o", "gpt-4o-mini", "whisper-1">>],
     gemini      |-> [isLocal |-> FALSE,
                      models |-> <<"gemini-3.0-pro-preview", "gemini-2.5-pro",
                                   "gemini-2.5-flash", "gemini-2.0-flash", "gemini-1.5-pro">>],
     anthropic   |-> [isLocal |-> FALSE,
                      models |-> <<"claude-opus-4.5", "claude-sonnet-4.5",
                                   "claude-3-5-sonnet-20241022", "claude-3-haiku-20240307">>],
     ollama      |-> [isLocal |-> TRUE,
                      models |-> <<"llama3.2", "gemma2", "qwen2.5", "mistral", "command-r">>],
     koboldcpp   |-> [isLocal |-> TRUE, models |-> <<"custom">>]]

Providers == DOMAIN AI_PROVIDERS

\* The ids of the models listed for a provider
ModelsOf(provider) ==
    {AI_PROVIDERS[provider].models[i] : i \in 1..Len(AI_PROVIDERS[provider].models)}

\* SettingsPanel: the providers of the cloud cards and of the local cards
cloudLLMProviders == {p \in Providers : ~AI_PROVIDERS[p].isLocal}
localLLMProviders == {p \in Providers : AI_PROVIDERS[p].isLocal}

\* What the key field of a card may hold once it has been typed in
ApiKeys == {"sk-1"}

\* The cards whose key field is typed in
KeyedProviders == {"openai", "anthropic"}

DEFAULT_SETTINGS ==
    [apiKeys |-> [p \in Providers |-> Undefined],
     selectedProvider |-> "gemini",
     selectedModel |-> "gemini-2.5-flash",
     localLLM |-> [ollamaUrl |-> "http://localhost:11434", ollamaModel |-> "llama3.2",
                   koboldcppUrl |-> "http://localhost:5001"],
     backend |-> [enabled |-> FALSE, url |-> "http://localhost:8000",
                  whisperModel |-> "large-v3", useLocalDiarization |-> TRUE],
     speakerDiarization |-> TRUE,
     autoSave |-> TRUE]

\* A processWithLLM that knows every provider of the list
RequestFunction_All(provider, localLLM) ==
    CASE provider = "openai" -> "processWithOpenAI"
      [] provider = "gemini" -> "processWithGemini"
      [] provider = "ollama" -> "processWithOllama"
      [] provider = "koboldcpp" -> "processWithKoboldCpp"
      [] OTHER -> "processWithAnthropic"

\* processWithLLM: the request function the switch hands the call to, or the error
\* it throws
RequestFunction(provider, localLLM) ==
    CASE provider = "openai" -> "processWithOpenAI"
      [] provider = "gemini" -> "processWithGemini"
      [] provider = "ollama" ->
           IF localLLM = None THEN "throw: Ollama settings needed" ELSE "processWithOllama"
      [] provider = "koboldcpp" ->
           IF localLLM = None THEN "throw: KoboldCpp settings needed"
           ELSE "processWithKoboldCpp"
      [] OTHER -> "throw: unsupported provider"

\* The select button of a provider card: updateSettings({ selectedProvider })
SelectProvider(provider) ==
    /\ settings' = [settings EXCEPT !.selectedProvider = provider]
    /\ UNCHANGED <<llmCall, outsideSettings>>

\* A model button of the selected provider's card: updateSettings({ selectedModel })
SelectModel(model) ==
    /\ settings.selectedProvider \in cloudLLMProviders
    /\ model \in ModelsOf(settings.selectedProvider)
    /\ settings' = [settings EXCEPT !.selectedModel = model]
    /\ UNCHANGED <<llmCall, outsideSettings>>

\* The toggles of the panel: updateSettings({ speakerDiarization }) and ({ autoSave })
ToggleSetting(field) ==
    /\ settings' = IF field = "autoSave"
                   THEN [settings EXCEPT !.autoSave = ~@]
                   ELSE [settings EXCEPT !.speakerDiarization = ~@]
    /\ UNCHANGED <<llmCall, outsideSettings>>

\* handleKeyChange: setAPIKey(provider, value)
setAPIKey(provider, key) ==
    /\ settings' = [settings EXCEPT !.apiKeys = [@ EXCEPT ![provider] = key]]
    /\ UNCHANGED <<llmCall, outsideSettings>>

\* A model button of the Ollama card: updateLocalLLM({ ollamaModel })
updateLocalLLM(model) ==
    /\ settings' = [settings EXCEPT !.localLLM = [@ EXCEPT !.ollamaModel = model]]
    /\ UNCHANGED <<llmCall, outsideSettings>>

\* The backend switch: updateBackend({ enabled: !settings.backend.enabled })
updateBackend ==
    /\ settings' = [settings EXCEPT !.backend = [@ EXCEPT !.enabled = ~@]]
    /\ UNCHANGED <<llmCall, outsideSettings>>

\* RecordingPanel: a recording is started and processed only with a local provider
\* selected or with a key for the selected provider
hasLLMReady ==
    \/ settings.selectedProvider \in {"ollama", "koboldcpp"}
    \/ settings.apiKeys[settings.selectedProvider] \notin {Undefined, ""}

\* The chain of RecordingPanel calls generateMeetingSummary, which calls processWithLLM
\* with the provider, the key, the model and the local settings of the store
CallLLM ==
    /\ hasLLMReady
    /\ llmCall' = Some([provider |-> settings.selectedProvider,
                        to |-> RequestFunction(settings.selectedProvider,
                                               Some(settings.localLLM))])
    /\ UNCHANGED <<settings, outsideSettings>>

SettingsIdle ==
    /\ settings = DEFAULT_SETTINGS
    /\ llmCall = None

SettingsInit == SettingsIdle

SettingsNext ==
    \/ \E p \in Providers : SelectProvider(p)
    \/ \E p \in Providers : \E model \in ModelsOf(p) : SelectModel(model)
    \/ \E field \in {"speakerDiarization", "autoSave"} : ToggleSetting(field)
    \/ \E p \in KeyedProviders, key \in ApiKeys : setAPIKey(p, key)
    \/ \E model \in ModelsOf("ollama") : updateLocalLLM(model)
    \/ updateBackend
    \/ CallLLM

-----------------------------------------------------------------------------
(* Client: useRealtimeTranscription, the live transcript of the recording panel *)

Recognitions == {"r1", "r2", "r3"}   \* the SpeechRecognition objects initRecognition makes

\* A SpeechRecognition object: whether it is "unused", "starting" (start() was called),
\* "running" (its start event was delivered) or "ended"; whether its onend handler is
\* attached; and the isListening its onend handler closed over
NoRecognition == [state |-> "unused", onend |-> FALSE, isListening |-> FALSE]

\* The recognition that recognitionRef.current names, if any
Current == IF speech.recognitionRef = None THEN {} ELSE {speech.recognitionRef[1]}

\* initRecognition is rebuilt when isListening changes: the onend handler of a
\* recognition tests the isListening of the render that made the recognition
ClosedOver(r) == speech.recognitions[r].isListening

\* startListening: clears a pending restart, makes a recognition, stores it in
\* recognitionRef and starts it; started tells whether start() returned or threw
startListening(r, started) ==
    /\ speech.isSupported
    /\ speech.recognitions[r].state = "unused"
    /\ speech' = [speech EXCEPT
          !.restartTimeoutRef = IF @ = "pending" THEN "cleared" ELSE @,
          !.recognitions[r] = [state |-> IF started THEN "starting" ELSE "unused",
                               onend |-> TRUE, isListening |-> speech.isListening],
          !.recognitionRef = Some(r),
          !.error = IF started THEN @ ELSE "failed to start",
          !.asked = TRUE]
    /\ UNCHANGED outsideSpeech

\* startListening on a browser without SpeechRecognition
startListening_Unsupported ==
    /\ ~speech.isSupported
    /\ speech' = [speech EXCEPT !.error = "not supported"]
    /\ UNCHANGED outsideSpeech

\* recognition.onstart: setIsListening(true), setError(null)
OnStart(r) ==
    /\ speech.recognitions[r].state = "starting"
    /\ speech' = [speech EXCEPT !.recognitions[r].state = "running",
                                !.isListening = TRUE, !.error = ""]
    /\ UNCHANGED outsideSpeech

\* The recognition ends on its own (silence, a network error, the engine's time
\* limit) and its end event is delivered: recognition.onend
OnEnd(r) ==
    /\ speech.recognitions[r].state \in {"starting", "running"}
    /\ speech' =
          IF ~speech.recognitions[r].onend
          THEN [speech EXCEPT !.recognitions[r].state = "ended"]
          ELSE IF ClosedOver(r) /\ speech.recognitionRef # None
          THEN [speech EXCEPT !.recognitions[r].state = "ended",
                              !.restartTimeoutRef = "pending"]
          ELSE [speech EXCEPT !.recognitions[r].state = "ended",
                              !.isListening = FALSE]
    /\ UNCHANGED outsideSpeech

\* The restart timer fires: recognitionRef.current?.start(), which throws (and is
\* ignored) when that recognition is started already
RestartFires ==
    /\ speech.restartTimeoutRef = "pending"
    /\ speech' = [speech EXCEPT
          !.restartTimeoutRef = "fired",
          !.recognitions = [r \in Recognitions |->
              IF r \in Current /\ @[r].state = "ended"
              THEN [@[r] EXCEPT !.state = "starting"] ELSE @[r]]]
    /\ UNCHANGED outsideSpeech

\* stopListening: clears the restart timer, detaches onend from the current
\* recognition, stops it and forgets it; setIsListening(false)
stopListening ==
    /\ speech' = [speech EXCEPT
          !.restartTimeoutRef = "null",
          !.recognitions = [r \in Recognitions |->
              IF r \in Current
              THEN [@[r] EXCEPT !.onend = FALSE,
                                !.state = IF @ \in {"starting", "running"} THEN "ended" ELSE @]
              ELSE @[r]],
          !.recognitionRef = None,
          !.isListening = FALSE,
          !.asked = FALSE]
    /\ UNCHANGED outsideSpeech

\* The hook after its first render on a browser with SpeechRecognition
SpeechIdle ==
    speech = [isSupported |-> TRUE, isListening |-> FALSE, error |-> "",
              recognitionRef |-> None, restartTimeoutRef |-> "null",
              recognitions |-> [r \in Recognitions |-> NoRecognition],
              asked |-> FALSE]

\* The hook after its first render, on a browser with or without SpeechRecognition
SpeechInit == \E supported \in BOOLEAN : speech = [
    isSupported |-> supported, isListening |-> FALSE, error |-> "",
    recognitionRef |-> None, restartTimeoutRef |-> "null",
    recognitions |-> [r \in Recognitions |-> NoRecognition], asked |-> FALSE]

SpeechNext ==
    \/ \E r \in Recognitions, started \in BOOLEAN : startListening(r, started)
    \/ startListening_Unsupported
    \/ \E r \in Recognitions : OnStart(r)
    \/ \E r \in Recognitions : OnEnd(r)
    \/ RestartFires
    \/ stopListening

-----------------------------------------------------------------------------
(* Client: useAudioRecorder, the recording of the browser *)

StartIds == {"s1", "s2"}             \* the calls of startRecording
RecordingSources == {"microphone", "system", "both"}
UserAgentTokens == {"Firefox", "Chrome", "Safari", "Edge"}

\* A detection that takes getDisplayMedia for system-audio support
detectBrowserSupport_AnyDisplay(ua, hasGetDisplayMedia) ==
    [browserName |-> IF "Firefox" \in ua THEN "Firefox" ELSE "Chrome",
     systemAudio |-> hasGetDisplayMedia]

\* detectBrowserSupport: the browser name from the tokens of the user agent, and
\* system audio for Chrome and Edge with getDisplayMedia
detectBrowserSupport(ua, hasGetDisplayMedia) ==
    LET browserName ==
            IF "Firefox" \in ua THEN "Firefox"
            ELSE IF "Chrome" \in ua THEN "Chrome"
            ELSE IF "Safari" \in ua /\ "Chrome" \notin ua THEN "Safari"
            ELSE IF "Edge" \in ua THEN "Edge"
            ELSE "Unknown"
    IN [browserName |-> browserName,
        systemAudio |-> hasGetDisplayMedia /\ browserName \in {"Chrome", "Edge"}]

\* A call of startRecording that has not been made: where it stands, the source it
\* was asked for and the one it records, the audio tracks of its display stream and
\* of its microphone stream ("none", "live", "stopped"), the AudioContext it made
\* ("none", "open", "closed") and its MediaRecorder ("none", "recording", "paused",
\* "stopping" once stopRecording has stopped it and its stop event is due, "inactive")
NoCall == [pc |-> "idle", asked |-> "", source |-> "", display |-> "none", mic |-> "none",
           context |-> "none", mediaRecorder |-> "none"]

\* streamRef.current.getTracks().forEach(stop) for the stream of this call: the
\* microphone track, the display audio tracks, or the one track of the mixing
\* destination; a MediaRecorder all of whose tracks have ended goes inactive
TracksStopped(call) ==
    [call EXCEPT !.mic = IF call.source = "microphone" /\ @ = "live" THEN "stopped" ELSE @,
                 !.display = IF call.source = "system" /\ @ = "live" THEN "stopped" ELSE @,
                 !.mediaRecorder = IF @ \in {"recording", "paused"} THEN "inactive" ELSE @]

\* cleanup: clears the interval of timerRef, stops the tracks of streamRef, closes the
\* context of audioContextRef, and nulls the three refs
cleanup(st) ==
    LET ofStream(c) == IF st.streamRef = Some(c) THEN TracksStopped(st.calls[c])
                       ELSE st.calls[c]
        ofContext(c, call) == IF st.audioContextRef = Some(c) /\ call.context = "open"
                              THEN [call EXCEPT !.context = "closed"] ELSE call
    IN [st EXCEPT !.timerRef = FALSE, !.streamRef = None, !.audioContextRef = None,
                  !.calls = [c \in StartIds |-> ofContext(c, ofStream(c))]]

\* The catch of startRecording: setError(message), cleanup()
Thrown(st, c, message) == cleanup([st EXCEPT !.error = message, !.calls[c].pc = "failed"])

\* startRecording from `streamRef.current = stream` on: the context of the analyser,
\* the MediaRecorder (whose constructor may throw), start, the state and the timer
Create(st, c, created) ==
    LET own == st.audioContextRef = None
        held == [st EXCEPT !.streamRef = Some(c),
                           !.audioContextRef = IF own THEN Some(c) ELSE @,
                           !.calls[c].context = IF own THEN "open" ELSE @]
    IN IF ~created THEN Thrown(held, c, "recorder failed")
       ELSE [held EXCEPT !.mediaRecorderRef = Some(c),
                         !.calls[c].mediaRecorder = "recording",
                         !.calls[c].pc = "done",
                         !.isRecording = TRUE,
                         !.isPaused = FALSE,
                         !.leaked = IF held.timerRef THEN @ + 1 ELSE @,
                         !.timerRef = TRUE]

\* startRecording(source) up to its first await; the panel shows the start control
\* while nothing records
startRecording(c, source) ==
    /\ ~recorder.isRecording
    /\ recorder.calls[c].pc = "idle"
    /\ c = "s2" => recorder.calls["s1"].pc # "idle"
    /\ LET support == recorder.browserSupport
           begun == [recorder EXCEPT !.error = "", !.calls[c].asked = source]
       IN recorder' =
            IF source # "microphone" /\ ~support.systemAudio
            THEN IF support.browserName = "Firefox"
                 THEN [begun EXCEPT !.error = "warning: microphone only",
                                    !.calls[c].source = "microphone",
                                    !.calls[c].pc = "getUserMedia"]
                 ELSE Thrown(begun, c, "unsupported browser")
            ELSE [begun EXCEPT !.calls[c].source = source,
                               !.calls[c].pc = IF source = "microphone" THEN "getUserMedia"
                                               ELSE "getDisplayMedia"]
    /\ UNCHANGED outsideRecorder

DisplayAnswers == {"audio", "no audio", "cancelled", "failed"}

\* getDisplayMedia settles: with audio tracks, without, cancelled by the user
\* (NotAllowedError), or rejected otherwise
DisplayReturns(c, answer, created) ==
    /\ recorder.calls[c].pc = "getDisplayMedia"
    /\ recorder' =
         CASE answer = "audio" ->
                LET got == [recorder EXCEPT !.calls[c].display = "live"] IN
                IF recorder.calls[c].source = "both"
                THEN [got EXCEPT !.calls[c].pc = "getUserMedia"]
                ELSE Create(got, c, created)
           [] answer = "cancelled" -> Thrown(recorder, c, "screen sharing cancelled")
           [] OTHER -> Thrown(recorder, c, "system audio failed")
    /\ UNCHANGED outsideRecorder

\* getUserMedia rejected (NotAllowedError): inside the try of the system audio the
\* error is rethrown as a cancelled screen share
MicRefused(st, c) ==
    Thrown(st, c, IF st.calls[c].source = "both" THEN "screen sharing cancelled"
                  ELSE "microphone refused")

\* getUserMedia settles; for 'both' the streams are mixed in a new AudioContext,
\* which goes to audioContextRef
MicReturns(c, granted, created) ==
    /\ recorder.calls[c].pc = "getUserMedia"
    /\ recorder' =
         IF ~granted THEN MicRefused(recorder, c)
         ELSE IF recorder.calls[c].source = "both"
         THEN Create([recorder EXCEPT !.calls[c].mic = "live",
                                      !.calls[c].context = "open",
                                      !.audioContextRef = Some(c)], c, created)
         ELSE Create([recorder EXCEPT !.calls[c].mic = "live"], c, created)
    /\ UNCHANGED outsideRecorder

\* The MediaRecorder that mediaRecorderRef.current names, if any
Held == IF recorder.mediaRecorderRef = None THEN {} ELSE {recorder.mediaRecorderRef[1]}

\* pauseRecording, from the pause control of a recording that is not paused
pauseRecording ==
    /\ recorder.isRecording /\ ~recorder.isPaused
    /\ recorder' =
         IF \E c \in Held : recorder.calls[c].mediaRecorder = "recording"
         THEN [recorder EXCEPT !.calls[recorder.mediaRecorderRef[1]].mediaRecorder = "paused",
                               !.isPaused = TRUE,
                               !.timerRef = FALSE]
         ELSE recorder
    /\ UNCHANGED outsideRecorder

\* resumeRecording, from the resume control of a paused recording
resumeRecording ==
    /\ recorder.isRecording /\ recorder.isPaused
    /\ recorder' =
         IF \E c \in Held : recorder.calls[c].mediaRecorder = "paused"
         THEN [recorder EXCEPT
                 !.calls[recorder.mediaRecorderRef[1]].mediaRecorder = "recording",
                 !.isPaused = FALSE,
                 !.leaked = IF recorder.timerRef THEN @ + 1 ELSE @,
                 !.timerRef = TRUE]
         ELSE recorder
    /\ UNCHANGED outsideRecorder

\* stopRecording, from the stop control: the recorder is stopped and its stop event
\* is awaited, or there is none to stop and the state is reset at once
stopRecording ==
    /\ recorder.isRecording
    /\ recorder' =
         IF \E c \in Held : recorder.calls[c].mediaRecorder \in {"recording", "paused"}
         THEN [recorder EXCEPT !.calls[recorder.mediaRecorderRef[1]].mediaRecorder = "stopping"]
         ELSE cleanup([recorder EXCEPT !.isRecording = FALSE, !.isPaused = FALSE])
    /\ UNCHANGED outsideRecorder

\* The stop event of a recorder that stopRecording stopped: setIsRecording(false),
\* setIsPaused(false), cleanup()
OnStop(c) ==
    /\ recorder.calls[c].mediaRecorder = "stopping"
    /\ recorder' = cleanup([recorder EXCEPT !.calls[c].mediaRecorder = "inactive",
                                            !.isRecording = FALSE,
                                            !.isPaused = FALSE])
    /\ UNCHANGED outsideRecorder

\* The hook after its first render in a browser
Mounted(support) ==
    [browserSupport |-> support, isRecording |-> FALSE, isPaused |-> FALSE, error |-> "",
     mediaRecorderRef |-> None, streamRef |-> None, audioContextRef |-> None,
     timerRef |-> FALSE, leaked |-> 0, calls |-> [c \in StartIds |-> NoCall]]

RecorderIdle == recorder = Mounted(detectBrowserSupport({"Chrome", "Safari"}, TRUE))

RecorderInit ==
    \E ua \in SUBSET UserAgentTokens, hasGetDisplayMedia \in BOOLEAN :
        recorder = Mounted(detectBrowserSupport(ua, hasGetDisplayMedia))

RecorderNext ==
    \/ \E c \in StartIds, source \in RecordingSources : startRecording(c, source)
    \/ \E c \in StartIds, answer \in DisplayAnswers, created \in BOOLEAN :
          DisplayReturns(c, answer, created)
    \/ \E c \in StartIds, granted, created \in BOOLEAN : MicReturns(c, granted, created)
    \/ pauseRecording
    \/ resumeRecording
    \/ stopRecording
    \/ \E c \in StartIds : OnStop(c)

-----------------------------------------------------------------------------
(* Specification of the task registry, the pipeline workers and the waits *)

TaskInit ==
    /\ tasks = [t \in TaskIds |-> Absent]
    /\ outcome = [t \in TaskIds |-> "pending"]
    /\ written = [t \in TaskIds |-> {}]
    /\ wait = [w \in WaitIds |-> IdleWait]

\* Nothing outside the task registry and the capture sessions is under way
ElsewhereIdle == MergeIdle /\ ColourIdle /\ MixIdle /\ ReceiverIdle /\ SenderIdle /\ ChainIdle /\ SettingsIdle /\ SpeechIdle /\ RecorderIdle

\* The merge variables start anywhere, all else at rest
MergeStart == TaskInit /\ CaptureInit /\ MergeInit /\ ColourIdle /\ MixIdle /\ ReceiverIdle /\ SenderIdle /\ ChainIdle /\ SettingsIdle /\ SpeechIdle /\ RecorderIdle

\* The colour variables start anywhere, all else at rest
ColourStart == TaskInit /\ CaptureInit /\ ColourInit /\ MergeIdle /\ MixIdle /\ ReceiverIdle /\ SenderIdle /\ ChainIdle /\ SettingsIdle /\ SpeechIdle /\ RecorderIdle

\* The mix variables start anywhere, all else at rest
MixStart == TaskInit /\ CaptureInit /\ MixInit /\ MergeIdle /\ ColourIdle /\ ReceiverIdle /\ SenderIdle /\ ChainIdle /\ SettingsIdle /\ SpeechIdle /\ RecorderIdle

\* The receiver variables start anywhere, all else at rest
ReceiverStart == TaskInit /\ CaptureInit /\ ReceiverInit /\ MergeIdle /\ ColourIdle /\ MixIdle /\ SenderIdle /\ ChainIdle /\ SettingsIdle /\ SpeechIdle /\ RecorderIdle

\* The sender variables start anywhere, all else at rest
SenderStart == TaskInit /\ CaptureInit /\ SenderInit /\ MergeIdle /\ ColourIdle /\ MixIdle /\ ReceiverIdle /\ ChainIdle /\ SettingsIdle /\ SpeechIdle /\ RecorderIdle

\* The chain variables start anywhere, all else at rest
ChainStart == TaskInit /\ CaptureInit /\ ChainInit /\ MergeIdle /\ ColourIdle /\ MixIdle /\ ReceiverIdle /\ SenderIdle /\ SettingsIdle /\ SpeechIdle /\ RecorderIdle

\* The settings variables start anywhere, all else at rest
SettingsStart == TaskInit /\ CaptureInit /\ SettingsInit /\ MergeIdle /\ ColourIdle /\ MixIdle /\ ReceiverIdle /\ SenderIdle /\ ChainIdle /\ SpeechIdle /\ RecorderIdle

\* The speech variables start anywhere, all else at rest
SpeechStart == TaskInit /\ CaptureInit /\ SpeechInit /\ MergeIdle /\ ColourIdle /\ MixIdle /\ ReceiverIdle /\ SenderIdle /\ ChainIdle /\ SettingsIdle /\ RecorderIdle

\* The recorder variables start anywhere, all else at rest
RecorderStart == TaskInit /\ CaptureInit /\ RecorderInit /\ MergeIdle /\ ColourIdle /\ MixIdle /\ ReceiverIdle /\ SenderIdle /\ ChainIdle /\ SettingsIdle /\ SpeechIdle

Init == TaskInit /\ CaptureInit /\ ElsewhereIdle

WorkerStep(t) == Advance(t) \/ \E m \in EngineMessages : Fail(t, m)

\* The steps of the system in which the waits of W may be started
TaskNext(W) ==
    \/ \E t \in TaskIds, a \in Audios : Submit(t, a)
    \/ \E t \in TaskIds : Advance(t)
    \/ \E t \in TaskIds, m \in EngineMessages : Fail(t, m)
    \/ \E t \in TaskIds : Evict(t)
    \/ \E w \in W, t \in TaskIds : StartWait(w, t)
    \/ \E w \in WaitIds : Poll(w)
    \/ Tick

Next == TaskNext(WaitIds)

Spec == Init /\ [][Next]_vars

CaptureSpec == Init /\ [][CaptureNext]_vars

\* One client wait, two tasks
LiveNext == TaskNext({"w1"})

\* Every engine call returns, every due poll runs, and time passes
LiveSpec ==
    /\ Init /\ [][LiveNext]_vars
    /\ \A t \in TaskIds : WF_vars(WorkerStep(t))
    /\ \A w \in WaitIds : WF_vars(Poll(w))
    /\ WF_vars(Tick)

\* The merge stage applied to every segment and every diarization result
MergeSpec == MergeStart /\ [][Merge]_vars

\* performSpeakerDiarization applied to every answer of the LLM
ColourSpec == ColourStart /\ [][Diarize]_vars

\* The mixing loop runs on its fixed tick, whatever the sources do
MixSpec == MixStart /\ [][MixNext]_vars /\ WF_vars(MixLoopTick)

\* The network delivers any of the sender's frames, each at most once, in any order
ReceiverSpec == ReceiverStart /\ [][ReceiverNext]_vars

\* The sender panel and the send sessions of the backend
SenderSpec == SenderStart /\ [][SenderNext]_vars

\* The processing chains of the panel with the task registry behind them, and the
\* history panel
ChainSpec == ChainStart /\ [][ChainNext]_vars

\* The minutes of the store, from the chains that add them to the history panel
StoreSpec == ChainStart /\ [][StoreNext]_vars

\* The live transcript: startListening, stopListening and the events of the recognitions
SpeechSpec == SpeechStart /\ [][SpeechNext]_vars

\* The capture sessions and the recording panel, with the panel left and re-entered
VisitSpec == Init /\ [][CaptureNext \/ LeaveAndReenter]_vars

\* The recording of the browser: the calls of the hook and the events of the media
RecorderSpec == RecorderStart /\ [][RecorderNext]_vars

\* The settings screen and the calls of processWithLLM with the settings of the store
SettingsSpec == SettingsStart /\ [][SettingsNext]_vars

-----------------------------------------------------------------------------
(* Claims about the task pipeline and waitForProcessing *)

Settled == {"resolved", "rejected"}
Polling == {"poll", "timer"}

\* What a wait that is still polling, or has settled, rests on
WaitBranchOk(w) ==
    /\ wait[w].pc \in Polling /\ wait[w].last # None
          => wait[w].last[1].status = "processing"
    /\ wait[w].pc = "resolved"
          => /\ wait[w].last # None
             /\ wait[w].last[1].status = "completed"
             /\ wait[w].result = wait[w].last[1].result
             /\ wait[w].result # None
    /\ wait[w].pc = "rejected" /\ wait[w].last # None
          => /\ wait[w].last[1].status = "error"
             /\ wait[w].result = None

\* C1: with every engine call returning, every submitted task reaches a terminal
\* status and every started wait settles: it resolves with the result of a
\* 'completed' status, rejects on an 'error' status, and goes on polling only
\* while the status it saw is 'processing'.
C1_TaskEndsAndWaitSettles ==
    /\ \A t \in TaskIds : (tasks[t].stage \in NonTerminal) ~> (outcome[t] # "pending")
    /\ \A w \in WaitIds : (wait[w].pc \in Polling) ~> (wait[w].pc \in Settled)
    /\ [](\A w \in WaitIds : WaitBranchOk(w))

\* A wait has resolved with the result of a task that ran to Completed
C1_Witness ==
    \E w \in WaitIds :
        /\ wait[w].pc = "resolved"
        /\ outcome[wait[w].taskId] = "completed"

\* C2: a status request for an id that is not in the registry (never submitted,
\* or evicted) fails with not-found and has no task status in it; the wait whose
\* poll met it is rejected with that error, has seen no status and does not go on
\* polling.
C2_UnknownTaskIsNotFound ==
    /\ \A t \in TaskIds :
          tasks[t] = Absent =>
             /\ ~HttpGetProcess(t).ok
             /\ HttpGetProcess(t).json.status \notin {"processing", "completed", "error"}
             /\ getProcessingStatus(t) = Throw("Task not found")
    /\ \A w \in WaitIds :
          wait[w].found = "missing" =>
             /\ wait[w].pc = "rejected"
             /\ wait[w].error = "Task not found"
             /\ wait[w].last = None
             /\ wait[w].result = None

\* A wait polled a task id after the task had been evicted
C2_Witness ==
    \E w \in WaitIds :
        /\ wait[w].found = "missing"
        /\ outcome[wait[w].taskId] # "pending"

\* A task whose engine call failed: Error, the engine's message, no result
FailedTaskOk(t) ==
    outcome[t] \in EngineMessages /\ tasks[t] # Absent =>
        /\ tasks[t].stage = "Error"
        /\ tasks[t].message = outcome[t]
        /\ tasks[t].result = None

\* The client's wait on a failed task: no result, and the engine's message when
\* the wait began while the task was within its retention window
FailedWaitOk(w) ==
    LET t == wait[w].taskId IN
    wait[w].pc # "idle" /\ outcome[t] \in EngineMessages =>
        /\ wait[w].pc # "resolved"
        /\ wait[w].result = None
        /\ wait[w].pc = "rejected" /\ wait[w].early => wait[w].error = outcome[t]

\* Nothing runs on a task that is in Error: its record stays as it is until evicted
NoStageAfterError(t) ==
    tasks[t].stage = "Error" =>
        \/ tasks'[t] = Absent
        \/ tasks'[t] = [tasks[t] EXCEPT !.age = tasks'[t].age]

StageMoves ==
    {<<"Absent", "Queued">>, <<"Queued", "Transcribing">>, <<"Transcribing", "Diarizing">>,
     <<"Diarizing", "Merging">>, <<"Merging", "Completed">>}
       \cup {<<s, "Error">> : s \in NonTerminal}

StepRank(step) ==
    CASE step = "" -> 0
      [] step = "transcribe" -> 1
      [] step = "diarize" -> 2
      [] step = "merge" -> 3

\* C4: a task moves Queued, Transcribing, Diarizing, Merging, Completed in that
\* order without skipping or going back, enters Error only from a non-terminal
\* stage, and leaves Completed or Error only by being removed; the processing
\* step the client displays for it never goes back either.
C4_StageOrder ==
    [][/\ \A t \in TaskIds :
             \/ tasks'[t].stage = tasks[t].stage
             \/ <<tasks[t].stage, tasks'[t].stage>> \in StageMoves
             \/ tasks[t].stage \in Terminal /\ tasks'[t] = Absent
       /\ \A w \in WaitIds : StepRank(wait'[w].step) >= StepRank(wait[w].step)]_vars

\* A task ran through every stage and a client followed it to the merge step
C4_Witness ==
    \E w \in WaitIds :
        /\ wait[w].pc = "resolved"
        /\ wait[w].step = "merge"
        /\ Cardinality(written[wait[w].taskId]) = 5

\* C5: every status a wait on task A observes, and the outcome it settles with,
\* is one that task A's own worker wrote.
C5_Isolation ==
    \A w \in WaitIds :
        LET t == wait[w].taskId IN
        /\ wait[w].last # None => wait[w].last[1] \in written[t]
        /\ wait[w].pc = "resolved" =>
              \E s \in written[t] : s.status = "completed" /\ s.result = wait[w].result
        /\ wait[w].pc = "rejected" /\ wait[w].found = "found" =>
              \E s \in written[t] : s.status = "error" /\ s.message = wait[w].error

\* Two waits poll two different tasks that are at different statuses
C5_Witness ==
    /\ wait["w1"].taskId # wait["w2"].taskId
    /\ wait["w1"].last # None /\ wait["w2"].last # None
    /\ wait["w1"].last # wait["w2"].last
    /\ wait["w1"].last[1] \notin written[wait["w2"].taskId]

-----------------------------------------------------------------------------
(* Claims about the capture sessions and the recording panel *)

\* What stop(sid) and status(sid) come back with in the current state
StopAnswerOk(sid) ==
    LET response == CaptureStop(sid)
        out == stopCapture(response)
    IN IF Recording(sid)
       THEN /\ out.kind = "return"
            /\ out.blob = Some([type |-> "audio/wav", bytes |-> Wav(sid, sessions[sid].buffer)])
            /\ response.sessions[sid] = NoSession
            /\ getCaptureStatus(CaptureStatus(sid)).kind = "return"
       ELSE /\ out = Outcome("throw", "SessionNotFound", None)
            /\ response.sessions = sessions /\ response.listeners = listeners
            /\ CaptureStatus(sid).detail = "SessionNotFound"
            /\ getCaptureStatus(CaptureStatus(sid)).kind = "throw"

\* A stopCapture call of the panel either holds the audio of its own session, which is
\* gone since, or failed with SessionNotFound
StopCallOk(c) ==
    IF c.out.kind = "return"
    THEN /\ c.out.blob # None
         /\ c.out.blob[1].type = "audio/wav"
         /\ c.out.blob[1].bytes.recorded = c.sessionId
         /\ handed[c.sessionId] = 1 /\ ~Recording(c.sessionId)
    ELSE c.out.error = "SessionNotFound" /\ c.out.blob = None

\* Audio leaves the backend only with the stop that destroys its session
HandOutStep(sid) ==
    handed'[sid] = handed[sid] + 1 =>
        /\ Recording(sid)
        /\ sessions'[sid] = NoSession
        /\ \A p \in Ports : listeners'[p] # sid

\* C6: the first stop(id) of a Recording session returns its accumulated audio and
\* destroys the session; every later stop(id) or status(id) fails with SessionNotFound;
\* the audio of one session is handed out exactly once
C6_AudioHandedOutOnce ==
    /\ [](\A sid \in SessionIds :
            /\ StopAnswerOk(sid)
            /\ handed[sid] <= 1
            /\ Recording(sid) => handed[sid] = 0)
    /\ [](\A c \in stopCalls : StopCallOk(c))
    /\ [][\A sid \in SessionIds : HandOutStep(sid)]_vars

\* A second stop of the panel's session failed after the first one took the recorded audio
C6_Witness ==
    \E c, d \in stopCalls :
        /\ c.sessionId = d.sessionId
        /\ c.out.kind = "return" /\ c.out.blob[1].bytes.frames > 0
        /\ d.out.kind = "throw"
        /\ handed[c.sessionId] = 1

\* What start(sid, ...) comes back with while sid is Recording
DuplicateStartRejected(sid) ==
    \A d \in DeviceLists, p \in PortChoices, ok \in BOOLEAN :
        LET response == CaptureStart(sid, d, p, ok) IN
        /\ ~response.ok
        /\ response.sessions = sessions /\ response.listeners = listeners
        /\ startCapture(response) = Outcome("throw", "SessionConflictError", None)

\* While a session stays Recording only its buffer changes, by one more mixed frame
RecordingStep(sid) ==
    Recording(sid) =>
        \/ sessions'[sid] = sessions[sid]
        \/ sessions'[sid] = [sessions[sid] EXCEPT !.buffer = @ + 1]
        \/ sessions'[sid] = NoSession

\* C7: a start with a session id that is already Recording fails with
\* SessionConflictError and leaves the session Recording with the same devices, port
\* and buffer; no session id ever has two capture loops; the id of the panel's next
\* start is not Recording
C7_DuplicateStartRejected ==
    /\ [](\A sid \in SessionIds :
            /\ Recording(sid) => DuplicateStartRejected(sid)
            /\ sessions[sid].threads = IF Recording(sid) THEN 1 ELSE 0)
    /\ [](issued < Len(PanelIds) => ~Recording(PanelIds[issued + 1]))
    /\ [][\A sid \in SessionIds : RecordingStep(sid)]_vars

\* Another caller's session records with a device, a port and audio in its buffer,
\* the panel's session records next to it
C7_Witness ==
    /\ Recording("x1") /\ Recording("p1")
    /\ sessions["x1"].devices # {} /\ sessions["x1"].port # NoPort
    /\ sessions["x1"].buffer > 0

\* A start the backend rejects changes neither the sessions nor the listeners
RejectedStartChangesNothing ==
    \A sid \in SessionIds, d \in DeviceLists, p \in PortChoices, ok \in BOOLEAN :
        LET response == CaptureStart(sid, d, p, ok) IN
        ~response.ok =>
            /\ response.sessions = sessions /\ response.listeners = listeners
            /\ startCapture(response).kind = "throw"

\* The session id of a startCapture call that threw has no session, stream or port
FailedCallLeftNoTrace(c) ==
    c.out.kind = "throw" =>
        /\ sessions[c.sessionId] = NoSession
        /\ \A p \in Ports : listeners[p] # c.sessionId

\* The panel shows a backend recording only under the id of a session the backend did start
PanelRecordsStartedSession ==
    /\ backendRecording <=> backendSessionId # NoId
    /\ backendSessionId # NoId =>
           Recording(backendSessionId) \/ handed[backendSessionId] = 1

\* handleStartRecording is through with the startCapture call c, which threw
FailedStartReturns(c) ==
    c.out.kind = "throw" /\ startCalls' = startCalls \ {c}

NothingSelected == useBackendCapture /\ selectedDevices = {} /\ networkPort = NoPort

\* What a start naming no device and no port comes back with
EmptyStartRejected(sid) ==
    \A ok \in BOOLEAN :
        LET response == CaptureStart(sid, {}, NoPort, ok) IN
        /\ ~response.ok
        /\ ~Recording(sid) => response.detail = "ConfigurationError"
        /\ response.sessions = sessions /\ response.listeners = listeners
        /\ startCapture(response).kind = "throw"

\* C9: a start with no device and no listen port is rejected as a configuration error
\* and creates no session; the panel never sends one: with backend capture on and
\* nothing selected the start control is disabled and handleStartRecording does not
\* take the startCapture branch
C9_EmptyStartNeverSent ==
    /\ \A sid \in SessionIds :
          /\ EmptyStartRejected(sid)
          /\ Recording(sid) => sessions[sid].devices # {} \/ sessions[sid].port # NoPort
    /\ ~sentEmpty
    /\ NothingSelected =>
          /\ ~UsesBackendCapture
          /\ \A llm \in BOOLEAN, perm \in PermissionStates : StartDisabled(llm, perm)

\* After a backend capture of the panel, the selection is emptied while nothing is
\* recording or processing
C9_Witness ==
    /\ NothingSelected
    /\ issued > 0 /\ handed["p1"] = 1
    /\ ~IsCurrentlyRecording /\ ~isProcessing

\* The Recording sessions that own listen port p
PortOwners(p) == {sid \in SessionIds : Recording(sid) /\ sessions[sid].port = p}

\* What a start naming port p comes back with: rejected while another session holds
\* p, bound when p is free
PortStartAnswer(sid, p) ==
    \A d \in DeviceLists, ok \in BOOLEAN :
        LET response == CaptureStart(sid, d, p, ok) IN
        /\ listeners[p] \notin {NoId, sid} =>
               ~response.ok /\ response.listeners = listeners
        /\ (listeners[p] = NoId /\ ~Recording(sid) /\ d = {}) =>
               response.ok /\ response.listeners[p] = sid

\* The stop of the session that owns p gives p back
ReleaseStep(sid, p) ==
    (Recording(sid) /\ sessions[sid].port = p /\ sessions'[sid] = NoSession) =>
        listeners'[p] = NoId

\* C10: at most one Recording session owns a listen port; a start naming a port held
\* by another Recording session is rejected; the stop of the owner releases the port
\* and a later start may bind it
C10_PortExclusive ==
    /\ [](\A p \in Ports :
            /\ Cardinality(PortOwners(p)) <= 1
            /\ \A sid \in SessionIds : listeners[p] = sid <=> sid \in PortOwners(p)
            /\ \A sid \in SessionIds : PortStartAnswer(sid, p))
    /\ [][\A sid \in SessionIds, p \in Ports : ReleaseStep(sid, p)]_vars

\* A port given back by a stopped session is bound by the panel's session
C10_Witness ==
    \E p \in released :
        /\ listeners[p] = "p1"
        /\ handed["x1"] = 1

-----------------------------------------------------------------------------
(* Claims about the merge stage *)

\* The ranges that share time with the segment
Overlapping == {i \in 1..Len(ranges) : Overlap(segment, ranges[i]) > 0}

\* Range i has the greatest overlap, and starts earliest among those that have it
Wins(i) ==
    /\ i \in Overlapping
    /\ \A j \in Overlapping :
          /\ Overlap(segment, ranges[j]) <= Overlap(segment, ranges[i])
          /\ Overlap(segment, ranges[j]) = Overlap(segment, ranges[i]) =>
                 ranges[i].start <= ranges[j].start

\* The example of the specification: segment [2,5], speakerA = [0,3], speakerB = [3,6]
MergeExample ==
    /\ segment = [start |-> 2, end |-> 5]
    /\ ranges = << [speaker |-> "speakerA", start |-> 0, end |-> 3],
                   [speaker |-> "speakerB", start |-> 3, end |-> 6] >>

\* C11: the merge stage gives a segment the speaker of the range that overlaps it the
\* most, of several such ranges the one that starts earliest, and the unknown speaker
\* when no range overlaps it; segment [2,5] with speakerA = [0,3] and speakerB = [3,6]
\* gets speakerB
C11_GreatestOverlapWins ==
    assigned # NotMerged =>
        /\ Overlapping = {} => assigned = UnknownSpeaker
        /\ Overlapping # {} =>
               \E i \in Overlapping : Wins(i) /\ assigned = ranges[i].speaker
        /\ MergeExample => assigned = "speakerB"

\* A merged segment that two ranges of different speakers overlap equally, the later
\* listed one starting earlier
C11_Witness ==
    /\ assigned # NotMerged
    /\ Len(ranges) = 2
    /\ ranges[1].speaker # ranges[2].speaker
    /\ Overlap(segment, ranges[1]) = Overlap(segment, ranges[2])
    /\ Overlap(segment, ranges[1]) > 0
    /\ ranges[2].start < ranges[1].start

-----------------------------------------------------------------------------
(* Claims about the speaker colours *)

-----------------------------------------------------------------------------
(* Claims about the progress of a task and the evict sweep *)

\* Progress, status and result of one status agree
ProgressAgrees(status) ==
    /\ status.progress \in 0..100
    /\ status.progress = 100 => status.status = "completed" /\ status.result # None
    /\ status.status = "completed" => status.result # None /\ status.progress = 100

\* The progress of a task in the registry does not go back
ProgressStays(t) ==
    (tasks[t] # Absent /\ tasks'[t] # Absent) => tasks'[t].progress >= tasks[t].progress

\* C13: the progress of a task lies in 0..100 and never decreases; it is 100 only when
\* the status is Completed and the result is attached, and a Completed status always
\* carries a result; so it is with every status a poll has read, and a wait resolves
\* with the result of its task
C13_ProgressAndResult ==
    /\ [](\A t \in TaskIds :
            /\ tasks[t] # Absent => ProgressAgrees(StatusOf(tasks[t]))
            /\ \A status \in written[t] : ProgressAgrees(status))
    /\ [](\A w \in WaitIds :
            /\ wait[w].last # None => ProgressAgrees(wait[w].last[1])
            /\ wait[w].pc = "resolved" => wait[w].result # None)
    /\ [][\A t \in TaskIds : ProgressStays(t)]_vars

\* A wait has resolved with the result of a task that is Completed at progress 100
C13_Witness ==
    \E w \in WaitIds :
        /\ wait[w].pc = "resolved"
        /\ tasks[wait[w].taskId] # Absent
        /\ tasks[wait[w].taskId].stage = "Completed"
        /\ tasks[wait[w].taskId].progress = 100

\* The sweep takes a task out of the registry only when it is terminal and expired
SweepStep(t) ==
    (tasks[t] # Absent /\ tasks'[t] = Absent) =>
        /\ tasks[t].stage \in Terminal
        /\ tasks[t].age >= Retention

\* C14: the evict sweep removes only tasks in a terminal status whose retention
\* window has passed; a task that is still being processed stays in the registry
\* whatever sweeps, workers and polls do
C14_EvictOnlyExpired ==
    /\ [](\A t \in TaskIds :
            (written[t] # {} /\ outcome[t] = "pending") =>
                tasks[t] # Absent /\ tasks[t].stage \in NonTerminal)
    /\ [][\A t \in TaskIds : SweepStep(t)]_vars

\* One task was swept after it ended while the other is being processed and polled
C14_Witness ==
    /\ tasks["A"] = Absent /\ outcome["A"] # "pending"
    /\ tasks["B"] # Absent /\ tasks["B"].stage \in NonTerminal
    /\ \E w \in WaitIds : wait[w].taskId = "B" /\ wait[w].pc \in Polling

-----------------------------------------------------------------------------
(* Claims about the mixing loop *)

\* The clipped sum of what the sources buffered, a source without a frame counting 0
ExpectedFrame ==
    Clip((IF pending["device"] = None THEN 0 ELSE pending["device"][1]) +
         (IF pending["peer"] = None THEN 0 ELSE pending["peer"][1]))

\* A step that changes the buffer appends exactly one frame, the mix of this tick
TickAppendsOne ==
    mixBuffer' # mixBuffer => mixBuffer' = Append(mixBuffer, ExpectedFrame)

\* C15: every tick of the mixing loop appends one mixed frame to the buffer whatever
\* the sources do: a source without new data in the tick contributes zeros, and the
\* buffer goes on growing when a source, or every source, has stopped delivering
C15_MixNeverStalls ==
    /\ [][TickAppendsOne]_vars
    /\ \A n \in 0..(MaxMixed - 1) : (Len(mixBuffer) = n) ~> (Len(mixBuffer) > n)

\* The peer is dead and had nothing buffered when a tick mixed the frame of the device
C15_Witness ==
    /\ ~alive["peer"] /\ alive["device"]
    /\ Len(mixBuffer) = MaxMixed
    /\ mixBuffer[1] = 0 /\ mixBuffer[MaxMixed] = 1

-----------------------------------------------------------------------------
(* Claims about the network receiver *)

\* The newest sequence number delivered so far (0 before the first frame)
Newest == IF arrived = {} THEN 0 ELSE CHOOSE n \in arrived : \A k \in arrived : k <= n

\* C16: a receiver whose frames arrive with gaps or out of order keeps running and
\* stays Recording; the audio accumulated for the sender spans the whole range of
\* sequence numbers up to the newest frame, with silence at every frame that is missing
C16_GapsFilledWithSilence ==
    /\ receiver = "Recording"
    /\ Len(peerAudio) = Newest
    /\ expected = Newest + 1
    /\ \A n \in 1..Len(peerAudio) :
          /\ n \notin arrived => peerAudio[n] = 0
          /\ peerAudio[n] \in {0, FrameSample(n)}
    /\ Newest > 0 => peerAudio[Newest] = FrameSample(Newest)

\* Frame 2 never came, frame 3 came after frame 4, and frame 5 still arrived
C16_Witness ==
    /\ arrived = {1, 3, 4, 5}
    /\ Len(peerAudio) = 5
    /\ peerAudio[2] = 0 /\ peerAudio[3] = 0
    /\ peerAudio[4] = FrameSample(4)

-----------------------------------------------------------------------------
(* Claims about the stream sender *)

\* A send loop runs for exactly the sessions that are marked sending
LoopsAreTheSendingSessions ==
    \A id \in SendIds : (id \in sendLoops) <=> (sendSessions[id] = "sending")

\* The startAudioSend call c threw: its session was never made and forwards nothing
FailedSendLeftNoLoop(c) ==
    c.out.kind = "throw" =>
        /\ sendSessions[c.newSessionId] = "none"
        /\ c.newSessionId \notin sendLoops
        /\ forwarded[c.newSessionId] = 0

\* A send session comes to be only in the step of a startAudioSend call that succeeds
SessionOnlyFromGoodStart(id) ==
    (sendSessions[id] = "none" /\ sendSessions'[id] # "none") =>
        /\ sendSessions'[id] = "sending"
        /\ \E c \in sendStarts' \ sendStarts : c.newSessionId = id /\ c.out.kind = "return"

\* A send loop that ends leaves its session marked stopped, and a stopped session
\* stays stopped and forwards nothing more
EndedLoopIsStopped(id) ==
    /\ (id \in sendLoops /\ id \notin sendLoops') => sendSessions'[id] = "stopped"
    /\ sendSessions[id] = "stopped" =>
           sendSessions'[id] = "stopped" /\ forwarded'[id] = forwarded[id]

\* handleStartSending is through with the startAudioSend call c, which threw
FailedSendReturns(c) ==
    c.out.kind = "throw" /\ sendStarts' = sendStarts \ {c}

-----------------------------------------------------------------------------
(* Claims about the processing chain, the minutes and the saved audio *)

\* The process requests chain c has sent
Requests(c) ==
    Cardinality({i \in 1..Len(processing[c].steps) : processing[c].steps[i] = "process request"})

\* The chains that have sent a process request, and the tasks ever registered
Requesters == {c \in ChainIds : Requests(c) > 0}
Registered == {t \in TaskIds : written[t] # {}}

\* A task in Error is left alone: no status is written for it any more; it only
\* ages until the sweep evicts it
ErrorIsFinal(t) ==
    tasks[t].stage = "Error" =>
        /\ tasks'[t] \in {Absent, tasks[t], [tasks[t] EXCEPT !.age = @ + 1]}
        /\ written'[t] = written[t]
        /\ outcome'[t] = outcome[t]

\* A chain in its catch does nothing more
FailedChainIsOver(c) ==
    processing[c].pc = "failed" => processing'[c] = processing[c]

\* C17: nothing retries a failed task: a task in Error stays in Error and no stage
\* of it runs again, and a chain sends at most one process request for its
\* recording; after a rejected wait or a failed poll it sends no other
C17_NoRetry ==
    /\ [](\A c \in ChainIds : Requests(c) <= 1)
    /\ [](Cardinality(Registered) <= Cardinality(Requesters))
    /\ [][\A t \in TaskIds : ErrorIsFinal(t)]_vars
    /\ [][\A c \in ChainIds : FailedChainIsOver(c)]_vars

\* The task of chain c1 failed in an engine and its wait was rejected; the task of
\* chain c2 was evicted before its wait polled, which failed with 404: both chains
\* are over with one request each, and the task of c1 is still in Error
C17_Witness ==
    /\ \A c \in ChainIds :
          /\ processing[c].pc = "failed"
          /\ processing[c].steps = <<"process request", "wait rejected">>
    /\ tasks[processing["c1"].taskId].stage = "Error"
    /\ tasks[processing["c2"].taskId] = Absent
    /\ \E w \in WaitIds : wait[w].taskId = processing["c2"].taskId /\ wait[w].found = "missing"

\* Where in the history of chain c the step stands (0 when it has not been taken)
Pos(c, step) ==
    IF \E i \in 1..Len(processing[c].steps) : processing[c].steps[i] = step
    THEN CHOOSE i \in 1..Len(processing[c].steps) : processing[c].steps[i] = step
    ELSE 0

\* Step a of chain c, if taken, came after step b
After(c, a, b) == Pos(c, a) > 0 => (0 < Pos(c, b) /\ Pos(c, b) < Pos(c, a))

\* The result chain c holds is the completed result of its own task, whose worker
\* went through transcription, diarization and merge
HoldsCompletedResult(c) ==
    /\ processing[c].result = Some(PipelineResult(processing[c].blob))
    /\ outcome[processing[c].taskId] = "completed"
    /\ {s.progress : s \in written[processing[c].taskId]} =
           {StageProgress(stage) : stage \in {"Queued", "Transcribing", "Diarizing",
                                              "Merging", "Completed"}}

\* C19: a stopped recording is processed in the order transcription, speaker
\* identification, minutes generation: the summary is asked for only once the
\* backend task returned its completed result, the audio is saved only once the
\* summary returned, and the minutes are added only once all of this is done
C19_ProcessingOrder ==
    \A c \in ChainIds :
        /\ After(c, "result", "process request")
        /\ After(c, "summary", "result")
        /\ After(c, "audio saved", "summary")
        /\ After(c, "minutes added", "audio saved")
        /\ processing[c].pc = "generateMeetingSummary" =>
               Pos(c, "result") > 0 /\ Pos(c, "summary") = 0
        /\ Pos(c, "result") > 0 => HoldsCompletedResult(c)
        /\ processing[c].pc = "saveAudio" => Pos(c, "summary") > 0
        /\ AudioIdOf(c) \in audioFiles => Pos(c, "audio saved") > 0
        /\ (\E i \in 1..Len(minutes) : minutes[i].id = MinutesIdOf(c)) =>
               /\ Pos(c, "minutes added") > 0
               /\ processing[c].pc = "done"

\* Chain c1 went through every step and its minutes are in the store, while chain
\* c2 waits for its summary
C19_Witness ==
    /\ processing["c1"].steps =
           <<"process request", "result", "summary", "audio saved", "minutes added">>
    /\ Len(minutes) = 1 /\ minutes[1].id = MinutesIdOf("c1")
    /\ processing["c2"].pc = "generateMeetingSummary"

\* The entries of the minutes store
Entries(list) == {list[i] : i \in 1..Len(list)}

\* Every entry that comes into the store carries the id of an audio record that
\* IndexedDB held before this step
SavedBeforeAdded ==
    \A m \in Entries(minutes') \ Entries(minutes) :
        m.audioId # None /\ m.audioId[1] \in audioFiles

\* Every entry that leaves the store has left no audio record behind
DeletedWithAudio ==
    \A m \in Entries(minutes) \ Entries(minutes') :
        m.audioId # None => m.audioId[1] \notin audioFiles'

\* The half of C20 about the entries added: it holds on its own
C20_SavedBeforeAdded == [][SavedBeforeAdded]_vars

\* C20: every minutes entry the processing chain adds carries an audioId whose
\* audio record was stored in IndexedDB before the entry was added, and deleting a
\* minutes entry from the history also deletes its audio record
C20_AudioSavedAndDeleted == [][SavedBeforeAdded /\ DeletedWithAudio]_vars

\* The entry of chain c1 is deleted from the history while its audio record is
\* still in IndexedDB
C20_Witness ==
    /\ processing["c1"].pc = "done"
    /\ minutes = <<>> /\ deleting = {}
    /\ AudioIdOf("c1") \in audioFiles

-----------------------------------------------------------------------------
(* Claims about the stop of a backend capture and the id the panel holds *)

\* C24: for each backend capture session the panel sends the captureStop request at
\* most once, whatever the clicks and the pending calls: no two stop requests of one
\* session are under way, and none of them is answered SessionNotFound
C24_StopSentOnce ==
    \A c \in stopCalls :
        /\ \A d \in stopCalls : c.sessionId = d.sessionId => c = d
        /\ c.out.kind = "return"

\* Two stopCapture calls for session p1 are awaited: the first holds the audio, the
\* second was answered SessionNotFound
C24_Witness ==
    \E c, d \in stopCalls :
        /\ c.sessionId = "p1" /\ d.sessionId = "p1"
        /\ c.out.kind = "return" /\ d.out.kind = "throw"
        /\ d.out.error = "SessionNotFound"
-----------------------------------------------------------------------------
(* Claims about the settings and the provider processWithLLM is called with *)

\* The providers the settings screen is said to offer for the LLM
OfferedLLMs == {"openai", "gemini", "anthropic", "ollama", "koboldcpp"}

\* The request functions ai-service defines, by provider
RequestFunctions ==
    [openai |-> "processWithOpenAI", gemini |-> "processWithGemini",
     ollama |-> "processWithOllama", koboldcpp |-> "processWithKoboldCpp"]

\* C22: a call of processWithLLM for a provider the settings screen lets the user
\* select (OpenAI, Gemini, Anthropic, Ollama, KoboldCpp) is handed to the request
\* function of that provider and does not end in the unsupported-provider error.
C22_EveryProviderServed ==
    \A call \in {llmCall} \ {None} :
        LET c == call[1] IN
        c.provider \in OfferedLLMs =>
            /\ c.to # "throw: unsupported provider"
            /\ c.provider \in DOMAIN RequestFunctions => c.to = RequestFunctions[c.provider]

\* The user has selected Anthropic on the settings screen, typed its key, and the
\* summary was asked for: processWithLLM threw the unsupported-provider error
C22_Witness ==
    /\ settings.selectedProvider = "anthropic"
    /\ settings.selectedProvider \in cloudLLMProviders
    /\ settings.apiKeys["anthropic"] = "sk-1"
    /\ llmCall = Some([provider |-> "anthropic", to |-> "throw: unsupported provider"])

\* setAPIKey, updateLocalLLM and updateBackend each change their own part of the
\* settings and nothing else
OwnPartOnly ==
    /\ (\E p \in Providers, key \in ApiKeys : setAPIKey(p, key)) =>
            settings' = [settings EXCEPT !.apiKeys = settings'.apiKeys]
    /\ (\E model \in ModelsOf("ollama") : updateLocalLLM(model)) =>
            settings' = [settings EXCEPT !.localLLM = settings'.localLLM]
    /\ updateBackend => settings' = [settings EXCEPT !.backend = settings'.backend]

C30_OwnPartOnly == [][OwnPartOnly]_vars

\* C30: after any sequence of settings operations the selected model is one of the
\* models listed for the selected provider, and setAPIKey, updateLocalLLM and
\* updateBackend change only their own part of the settings.
C30_ModelOfProvider ==
    [](settings.selectedModel \in ModelsOf(settings.selectedProvider)) /\ [][OwnPartOnly]_vars

\* A provider was selected while the model of another provider was the selected
\* model, and a key has been typed since
C30_Witness ==
    /\ settings.selectedProvider = "openai"
    /\ settings.selectedModel = "gemini-2.5-flash"
    /\ settings.apiKeys["openai"] = "sk-1"
    /\ settings.localLLM.ollamaModel # DEFAULT_SETTINGS.localLLM.ollamaModel
    /\ settings.backend.enabled

-----------------------------------------------------------------------------
(* Claims about the store: the end of a processing run, and currentMinutes *)

\* The chains between setIsProcessing(true) and the end of their try block
Running == {c \in ChainIds : processing[c].pc \notin {"idle", "failed", "done"}}

\* The failures of a chain: no backend, the process request rejected, the wait
\* rejected (the task ended in Error, or a status poll failed), the save failed
ChainFailures == {"no backend", "process request rejected", "wait rejected", "save failed"}

\* A step in which chain c meets one of these failures
ChainFails(c) ==
    /\ processing[c].pc # "failed"
    /\ processing'[c].pc = "failed"
    /\ processing'[c].steps[Len(processing'[c].steps)] \in ChainFailures

\* The step of a failure adds no entry, leaves currentMinutes and activeTab as they
\* are and resets isProcessing
FailureLeavesStore ==
    \A c \in ChainIds :
        ChainFails(c) =>
            /\ minutes' = minutes
            /\ currentMinutes' = currentMinutes
            /\ activeTab' = activeTab
            /\ ~isProcessing'

\* The entry of a failed chain is not in the store, and isProcessing is true exactly
\* while one chain runs
FailedChainHasNoEntry ==
    /\ \A c \in ChainIds :
          processing[c].pc = "failed" =>
              \A i \in DOMAIN minutes : minutes[i].id # MinutesIdOf(c)
    /\ isProcessing <=> Running # {}
    /\ Cardinality(Running) <= 1

\* C27: when a step of the processing chain fails, no minutes entry is added,
\* currentMinutes and activeTab are left unchanged and isProcessing is reset to false;
\* isProcessing is true only between the start and the end of one processing run.
C27_FailureLeavesStore == []FailedChainHasNoEntry /\ [][FailureLeavesStore]_vars

\* The save of the second recording failed while the minutes of the first were the
\* current minutes and the settings tab was shown
C27_Witness ==
    /\ processing["c1"].pc = "done"
    /\ processing["c2"].pc = "failed"
    /\ processing["c2"].steps[Len(processing["c2"].steps)] = "save failed"
    /\ currentMinutes = Some(MinutesOf("c1"))
    /\ activeTab = "settings"
    /\ minutes = <<MinutesOf("c1")>>
    /\ ~isProcessing

\* C29: currentMinutes is null or equal to the entry of the minutes list with the
\* same id: deleting that entry clears it, deleting another entry leaves it, and
\* updating that entry is reflected in it.
C29_CurrentIsListed ==
    currentMinutes = None \/ \E i \in DOMAIN minutes : minutes[i] = currentMinutes[1]

\* deleteMinutes clears currentMinutes when it is the entry deleted and leaves it
\* otherwise
DeleteKeepsCurrent ==
    \A m \in deleting :
        DeleteReturns(m) =>
            currentMinutes' = IF currentMinutes # None /\ currentMinutes[1].id = m.id
                              THEN None ELSE currentMinutes

C29_DeleteKeepsCurrent == [][DeleteKeepsCurrent]_vars

\* An action item of the entry shown was toggled: the entry of the list is updated,
\* currentMinutes is the entry as it was
C29_Witness ==
    /\ currentMinutes = Some(MinutesOf("c1"))
    /\ \E i \in DOMAIN minutes :
          /\ minutes[i].id = MinutesIdOf("c1")
          /\ minutes[i].actionItems = <<TRUE>>
          /\ minutes[i].edited

-----------------------------------------------------------------------------
(* Claims about the live transcript *)

\* The recognitions that start() is called on in this step
StartedNow ==
    {r \in Recognitions : speech.recognitions[r].state # "starting"
                          /\ speech'.recognitions[r].state = "starting"}

\* The recognitions that end in this step
EndedNow ==
    {r \in Recognitions : speech.recognitions[r].state \in {"starting", "running"}
                          /\ speech'.recognitions[r].state = "ended"}

\* When the current recognition ends between startListening and stopListening, the
\* restart timer is set
RestartsOnEnd ==
    \A r \in EndedNow :
        (speech.asked /\ speech'.asked /\ r \in Current) =>
            speech'.restartTimeoutRef = "pending"

\* After stopListening nothing starts a recognition until the next startListening
NoStartAfterStop == StartedNow # {} => speech'.asked

C23_NoStartAfterStop == [][NoStartAfterStop]_vars

\* C23: a recognition that ends on its own between startListening and stopListening
\* is started again after the restart delay, and after stopListening no recognition
\* is started until the next startListening.
C23_RestartsOnEnd == [][RestartsOnEnd /\ NoStartAfterStop]_vars

\* startListening was called while nothing was listening, the recognition started
\* and then ended on its own: no restart is pending and isListening is false again
C23_Witness ==
    /\ speech.asked
    /\ \E r \in Current :
          /\ speech.recognitions[r] = [state |-> "ended", onend |-> TRUE,
                                       isListening |-> FALSE]
          /\ \A q \in Recognitions \ {r} : speech.recognitions[q] = NoRecognition
    /\ speech.restartTimeoutRef = "null"
    /\ ~speech.isListening

-----------------------------------------------------------------------------
(* Claims about the recording of the browser *)

\* The calls of startRecording made in this step, and those that fail in it
CalledNow == {c \in StartIds : recorder.calls[c].pc = "idle" /\ recorder'.calls[c].pc # "idle"}
FailedNow == {c \in StartIds : recorder.calls[c].pc # "failed"
                               /\ recorder'.calls[c].pc = "failed"}

\* A call for 'system' or 'both' without system-audio support goes on with the
\* microphone and a warning on Firefox, and fails at once anywhere else, with
\* nothing acquired, no stream held and isRecording as it was, false
FallbackOrError ==
    \A c \in CalledNow :
        LET call == recorder'.calls[c] IN
        (call.asked # "microphone" /\ ~recorder.browserSupport.systemAudio) =>
            IF recorder.browserSupport.browserName = "Firefox"
            THEN /\ call.source = "microphone" /\ call.pc = "getUserMedia"
                 /\ recorder'.error = "warning: microphone only"
            ELSE /\ call.pc = "failed"
                 /\ recorder'.error = "unsupported browser"
                 /\ ~recorder'.isRecording
                 /\ recorder'.streamRef = None
                 /\ call.display = "none" /\ call.mic = "none" /\ call.context = "none"

\* System audio is supported on Chrome and Edge only; a call that fell back to the
\* microphone never has a display stream, and what it records is the microphone
SystemAudioOnChromeAndEdge ==
    /\ recorder.browserSupport.systemAudio =>
           recorder.browserSupport.browserName \in {"Chrome", "Edge"}
    /\ \A c \in StartIds :
           LET call == recorder.calls[c] IN
           /\ (call.pc # "idle" /\ ~recorder.browserSupport.systemAudio) =>
                  call.display = "none"
           /\ (call.mediaRecorder # "none" /\ ~recorder.browserSupport.systemAudio) =>
                  call.source = "microphone" /\ call.mic # "none"

\* C21: system audio is offered on Chrome and Edge only; asked for 'system' or 'both'
\* without system-audio support, startRecording records the microphone only, with a
\* warning, on Firefox, and on any other browser fails with an error: no recording
\* starts, isRecording stays false and no stream stays open.
C21_FallbackOrError == []SystemAudioOnChromeAndEdge /\ [][FallbackOrError]_vars

\* On Safari a call for 'both' has failed with nothing acquired
C21_Witness ==
    /\ recorder.browserSupport = [browserName |-> "Safari", systemAudio |-> FALSE]
    /\ recorder.calls["s1"] = [NoCall EXCEPT !.pc = "failed", !.asked = "both"]
    /\ recorder.error = "unsupported browser"
    /\ ~recorder.isRecording /\ recorder.streamRef = None

\* On Firefox a call for 'system' records the microphone, with the warning shown
C21_FirefoxRecords ==
    /\ recorder.browserSupport.browserName = "Firefox"
    /\ recorder.calls["s1"].asked = "system"
    /\ recorder.calls["s1"].mediaRecorder = "recording"
    /\ recorder.calls["s1"].mic = "live"
    /\ recorder.error = "warning: microphone only"

\* The interval timers that run, and the MediaRecorders that record or are paused
ActiveTimers == (IF recorder.timerRef THEN 1 ELSE 0) + recorder.leaked
ActiveRecorders == {c \in StartIds : recorder.calls[c].mediaRecorder \in {"recording", "paused"}}

\* C25: after any interleaving of startRecording, pauseRecording, resumeRecording and
\* stopRecording at most one duration timer and at most one MediaRecorder are active,
\* the timer runs exactly when isRecording and not isPaused, and isPaused implies
\* isRecording.
C25_OneTimerOneRecorder ==
    /\ ActiveTimers <= 1
    /\ Cardinality(ActiveRecorders) <= 1
    /\ ActiveTimers > 0 <=> (recorder.isRecording /\ ~recorder.isPaused)
    /\ recorder.isPaused => recorder.isRecording

\* The start control was clicked twice before the first call had its stream: both
\* calls made a MediaRecorder and an interval, and the refs hold those of the second
C25_Witness ==
    /\ recorder.calls["s1"].mediaRecorder = "recording"
    /\ recorder.calls["s2"].mediaRecorder = "recording"
    /\ recorder.mediaRecorderRef = Some("s2")
    /\ recorder.timerRef /\ recorder.leaked = 1

\* What a call has acquired and not released
Open(call) == call.display = "live" \/ call.mic = "live" \/ call.context = "open"

\* A call that fails leaves isRecording false and the error set, and has stopped
\* or closed all it acquired
FailureReleasesAll ==
    \A c \in FailedNow :
        /\ ~recorder'.isRecording
        /\ recorder'.error # ""
        /\ ~Open(recorder'.calls[c])

\* C26: when startRecording fails at any step, afterwards isRecording is false, the
\* error is set, and every media track and audio context acquired during the attempt
\* has been stopped or closed.
C26_FailureReleasesAll == [][FailureReleasesAll]_vars

\* A call for 'both' got the display stream, was refused the microphone and failed:
\* the audio tracks of the display stream are live
C26_Witness ==
    /\ recorder.calls["s1"].pc = "failed"
    /\ recorder.calls["s1"].asked = "both"
    /\ recorder.calls["s1"].display = "live"
    /\ recorder.calls["s2"] = NoCall
    /\ recorder.streamRef = None
    /\ recorder.error = "screen sharing cancelled"

-----------------------------------------------------------------------------
(* Claims about the session id the panel holds *)

\* The sessions whose startCapture the panel still awaits
BeingStarted == {c.sessionId : c \in startCalls}

\* The sessions the panel has started that record on the backend
PanelSessionsRecording ==
    {PanelIds[i] : i \in 1..issued} \cap {s \in SessionIds : sessions[s].state = "Recording"}

\* C28: while a capture session the client started is Recording on the backend, the
\* client holds its id and shows itself as recording, so that the session can be
\* stopped; it drops the id only once the session has ended, also when stopCapture
\* fails and when the recording panel is left and re-entered.
C28_HoldsRecordingSession ==
    \A s \in PanelSessionsRecording \ BeingStarted :
        backendRecording /\ backendSessionId = s

\* A session the panel started records on the backend while the panel, mounted anew,
\* holds no id and shows the start control
C28_Witness ==
    /\ sessions["p1"].state = "Recording"
    /\ issued = 1
    /\ startCalls = {} /\ stopCalls = {}
    /\ backendSessionId = NoId /\ ~backendRecording

====
